---------------------------- MODULE Spec2Model ----------------------------
(***************************************************************************)
(* Math Adventures: the adaptive puzzle engine.                            *)
(*                                                                         *)
(*   - the puzzle generator   (scriptjs/puzzleGenerator.js, script.js)     *)
(*   - the adaptive engine    (scriptjs/mlEngine.js, script.js)            *)
(*   - the rating system      (scriptjs/rating.js)                         *)
(*   - the game flow          (scriptjs/rating.js, scriptjs/mlEngine.js,   *)
(*                             scriptjs/puzzleGenerator.js)                *)
(*                                                                         *)
(* Math.random() is modelled by its floored outcome: every call of the     *)
(* form Math.floor(Math.random() * n) is a choice from 0 .. n-1, and a     *)
(* test Math.random() < p is a choice of its truth value.  The operators   *)
(* that model a generator take the outcomes of the calls it makes, in the  *)
(* order it makes them, as the tuple r.                                    *)
(*                                                                         *)
(* A display string is modelled as the sequence of its tokens; the         *)
(* multiplication and division signs are written "*" and "/".              *)
(***************************************************************************)
EXTENDS Integers, Sequences, FiniteSets, TLC

VARIABLES
    pc,             \* "ready" before the call under study, "done" after it
    level,          \* generatePuzzle: the argument
    puzzle,         \* generatePuzzle: the returned object
    branch,         \* generatePuzzle: the path taken through the generator
    difficulty,     \* gameState.difficulty, the currentDiff argument
    performance,    \* gameState.performance, the perfHistory argument
    modelTrained,   \* the global modelTrained
    prediction,     \* what adaptiveModel.predict gave, when it was consulted
    nextDiff,       \* what calculateNextDifficulty (mlEngine.js) returned
    ruleNextDiff,   \* what calculateNextDifficultyRuleBased returned
    scriptNextDiff, \* what calculateNextDifficulty (script.js) returned
    rejected,       \* whether calculateNextDifficulty's promise was rejected
    accuracy,       \* calculateSessionRating: accuracy, in tenths of a percent
    avgTime,        \* calculateSessionRating: avgTime, in ms
    finalDifficulty,\* calculateSessionRating: finalDifficulty
    sessionScore,   \* what calculateSessionRating returned, and the
                    \* argument of updatePlayerRating
    userData,       \* the global userData: rating, gamesPlayed, bestRating,
                    \* and totalAccuracy, the mean accuracy, held as the
                    \* mean times gamesPlayed, in tenths of a percent
    userDataBefore, \* userData when the last summary began
    ratingChange,   \* what updatePlayerRating returned
    sessions,       \* the number of summaries shown so far
    userDoc,        \* the player's document in the users collection
    sessionDocs,    \* the documents in the player's sessions collection
    loadPending,    \* signInWithGoogle is waiting for loadUserData
    screen,         \* the screen without the class hidden
    loadingOverlay, \* startGame is waiting for initializeMLModel
    puzzleShown,    \* puzzleArea is displayed: a puzzle awaits its answer
    pendingAdvance, \* the advance callbacks submitAnswer has scheduled
    puzzleCount,    \* gameState.puzzleCount
    isSignedIn,     \* gameState.isSignedIn
    isMobile,       \* the device test of initializeMLModel
    tfLoaded,       \* typeof tf !== 'undefined'
    elapsed,        \* ms since the last initializeMLModel call began
    initCalls,      \* the calls of initializeMLModel so far
    initFailures,   \* those that ended in its catch clause
    initOutcome,    \* how the last call of initializeMLModel settled
    adaptiveModel,  \* the call that made the model the global refers to
    runs,           \* the calls of actuallyInitializeML: how far each is
    answerInput,    \* the answer box holds a value
    puzzlesShown,   \* the puzzles showNewPuzzle displayed in this game
    adaptCalls,     \* the calls of calculateNextDifficulty in this game
    summaries,      \* the calls of showSummary since the game began
    lastPerfDifficulty \* the difficulty field of the last record pushed

vars == <<pc, level, puzzle, branch, difficulty, performance, modelTrained,
          prediction, nextDiff, ruleNextDiff, scriptNextDiff, rejected,
          accuracy, avgTime, finalDifficulty, sessionScore, userData,
          userDataBefore, ratingChange, sessions, userDoc, sessionDocs,
          loadPending, screen, loadingOverlay,
          puzzleShown, pendingAdvance, puzzleCount, isSignedIn, isMobile,
          tfLoaded, elapsed, initCalls, initFailures, initOutcome,
          adaptiveModel, runs, answerInput, puzzlesShown, adaptCalls,
          summaries, lastPerfDifficulty>>

generatorVars == <<level, puzzle, branch>>
engineVars == <<difficulty, performance, modelTrained, prediction, nextDiff,
                ruleNextDiff, scriptNextDiff, rejected>>
ratingVars == <<accuracy, avgTime, finalDifficulty, sessionScore, userData,
                userDataBefore, ratingChange, sessions, userDoc, sessionDocs,
                loadPending>>
gameVars == <<screen, loadingOverlay, puzzleShown, pendingAdvance,
              puzzleCount, isSignedIn, isMobile, tfLoaded, elapsed,
              initCalls, initFailures, initOutcome, adaptiveModel, runs,
              answerInput, puzzlesShown, adaptCalls, summaries,
              lastPerfDifficulty>>

---------------------------------------------------------------------------
(* Configuration: config.js                                                *)

DIFFICULTY_LEVELS ==
    [l \in 0..2 |->
        CASE l = 0 -> [name |-> "Easy", range |-> <<1, 10>>,
                       operations |-> <<"+", "-">>,
                       maxOperands |-> 2, useBodmas |-> FALSE,
                       simpleProb |-> 100]
          [] l = 1 -> [name |-> "Medium", range |-> <<1, 20>>,
                       operations |-> <<"+", "-", "*">>,
                       maxOperands |-> 3, useBodmas |-> TRUE,
                       simpleProb |-> 50]
          [] l = 2 -> [name |-> "Hard", range |-> <<10, 50>>,
                       operations |-> <<"+", "-", "*", "/">>,
                       maxOperands |-> 4, useBodmas |-> TRUE,
                       simpleProb |-> 30]]

Levels == 0..2

---------------------------------------------------------------------------
(* The random source                                                       *)

\* Math.floor(Math.random() * n)
RandInt(n) == 0..(n - 1)

\* Math.random() < percent / 100
RandBelow(percent) ==
    IF percent >= 100 THEN {TRUE}
    ELSE IF percent <= 0 THEN {FALSE}
    ELSE BOOLEAN

Min2(a, b) == IF a < b THEN a ELSE b
Max2(a, b) == IF a > b THEN a ELSE b
Abs(x) == IF x < 0 THEN -x ELSE x

---------------------------------------------------------------------------
(* Puzzles                                                                 *)

Num(n) == [kind |-> "num", val |-> n]
Sym(s) == [kind |-> s, val |-> 0]

Puzzle(n1, n2, op, ans, disp) ==
    [num1 |-> n1, num2 |-> n2, operation |-> op, answer |-> ans,
     display |-> disp]

NoPuzzle == Puzzle(0, 0, "none", 0, <<>>)

\* the predictor was not consulted
NoPrediction == [threw |-> FALSE, data |-> <<0, 0, 0>>]

\* The initial value of the global userData (the fields the rating reads)
InitialUserData ==
    [rating |-> 1000, gamesPlayed |-> 0, totalAccuracy |-> 0,
     bestRating |-> 1000]

\* The users collection holds no document of the player
NoDocument ==
    [exists |-> FALSE, rating |-> 0, gamesPlayed |-> 0, totalAccuracy |-> 0,
     bestRating |-> 0]

\* The generator before any call
InitGeneratorIdle ==
    /\ level = 0
    /\ puzzle = NoPuzzle
    /\ branch = "none"

\* The engine before any call
InitEngineIdle ==
    /\ difficulty = 0
    /\ performance = <<>>
    /\ modelTrained = FALSE
    /\ prediction = NoPrediction
    /\ nextDiff = 0
    /\ ruleNextDiff = 0
    /\ scriptNextDiff = 0
    /\ rejected = FALSE

\* The page as loaded: the welcome screen, no game and no predictor yet
GameIdle ==
    /\ screen = "welcome"
    /\ loadingOverlay = FALSE
    /\ puzzleShown = FALSE
    /\ pendingAdvance = 0
    /\ puzzleCount = 0
    /\ isSignedIn = FALSE
    /\ isMobile = FALSE
    /\ tfLoaded = TRUE
    /\ elapsed = 0
    /\ initCalls = 0
    /\ initFailures = 0
    /\ initOutcome = "none"
    /\ adaptiveModel = 0
    /\ runs = <<>>
    /\ answerInput = FALSE
    /\ puzzlesShown = 0
    /\ adaptCalls = 0
    /\ summaries = 0
    /\ lastPerfDifficulty = 0

\* The rating system before any summary
RatingIdle ==
    /\ accuracy = 0
    /\ avgTime = 0
    /\ finalDifficulty = 0
    /\ sessionScore = 0
    /\ userData = InitialUserData
    /\ userDataBefore = InitialUserData
    /\ ratingChange = 0
    /\ sessions = 0
    /\ userDoc = NoDocument
    /\ sessionDocs = 0
    /\ loadPending = FALSE

\* generateSimplePuzzle with the divisor drawn as
\* Math.floor(Math.random() * 10), without the + 1
generateSimplePuzzle_zeroDivisor(config, r) ==
    LET min == config.range[1]
        operation == config.operations[r[1] + 1]
        n1 == r[2] + min
        n2 == r[3] + min
    IN  CASE operation = "+" ->
               Puzzle(n1, n2, "+", n1 + n2, <<Num(n1), Sym("+"), Num(n2)>>)
          [] operation = "-" ->
               LET a == IF n2 > n1 THEN n2 ELSE n1
                   b == IF n2 > n1 THEN n1 ELSE n2
               IN  Puzzle(a, b, "-", a - b, <<Num(a), Sym("-"), Num(b)>>)
          [] operation = "*" ->
               LET a == r[4] + 1
                   b == r[5] + 1
               IN  Puzzle(a, b, "*", a * b, <<Num(a), Sym("*"), Num(b)>>)
          [] operation = "/" ->
               LET b == r[4]
                   q == r[5] + 1
                   a == b * q
               IN  Puzzle(a, b, "/", q, <<Num(a), Sym("/"), Num(b)>>)
          [] OTHER ->
               Puzzle(n1, n2, operation, n1 + n2,
                      <<Num(n1), Sym("+"), Num(n2)>>)

\* generateSimplePuzzle without the swap of the subtraction case
generateSimplePuzzle_noSwap(config, r) ==
    LET min == config.range[1]
        operation == config.operations[r[1] + 1]
        n1 == r[2] + min
        n2 == r[3] + min
    IN  CASE operation = "+" ->
               Puzzle(n1, n2, "+", n1 + n2, <<Num(n1), Sym("+"), Num(n2)>>)
          [] operation = "-" ->
               Puzzle(n1, n2, "-", n1 - n2, <<Num(n1), Sym("-"), Num(n2)>>)
          [] operation = "*" ->
               LET a == r[4] + 1
                   b == r[5] + 1
               IN  Puzzle(a, b, "*", a * b, <<Num(a), Sym("*"), Num(b)>>)
          [] operation = "/" ->
               LET b == r[4] + 1
                   q == r[5] + 1
                   a == b * q
               IN  Puzzle(a, b, "/", q, <<Num(a), Sym("/"), Num(b)>>)
          [] OTHER ->
               Puzzle(n1, n2, operation, n1 + n2,
                      <<Num(n1), Sym("+"), Num(n2)>>)

\* generateSimplePuzzle(config); r = <<operation index, num1, num2,
\* first redraw, second redraw>> (the redraws are those of the
\* multiplication and division cases)
generateSimplePuzzle(config, r) ==
    LET min == config.range[1]
        operation == config.operations[r[1] + 1]
        n1 == r[2] + min
        n2 == r[3] + min
    IN  CASE operation = "+" ->
               Puzzle(n1, n2, "+", n1 + n2, <<Num(n1), Sym("+"), Num(n2)>>)
          [] operation = "-" ->
               LET a == IF n2 > n1 THEN n2 ELSE n1
                   b == IF n2 > n1 THEN n1 ELSE n2
               IN  Puzzle(a, b, "-", a - b, <<Num(a), Sym("-"), Num(b)>>)
          [] operation = "*" ->
               LET a == r[4] + 1
                   b == r[5] + 1
               IN  Puzzle(a, b, "*", a * b, <<Num(a), Sym("*"), Num(b)>>)
          [] operation = "/" ->
               LET b == r[4] + 1
                   q == r[5] + 1
                   a == b * q
               IN  Puzzle(a, b, "/", q, <<Num(a), Sym("/"), Num(b)>>)
          [] OTHER ->
               Puzzle(n1, n2, operation, n1 + n2,
                      <<Num(n1), Sym("+"), Num(n2)>>)

\* the outcomes of the random calls of generateSimplePuzzle
SimpleDraws(config) ==
    RandInt(Len(config.operations))
        \X RandInt(config.range[2] - config.range[1] + 1)
        \X RandInt(config.range[2] - config.range[1] + 1)
        \X RandInt(10) \X RandInt(10)

\* generateMultFirst(min, max): a + b * c; r = <<a, b, c>>
generateMultFirst(min, max, r) ==
    LET a == r[1] + min
        b == r[2] + 2
        c == r[3] + 2
    IN  Puzzle(a, b, "complex", a + (b * c),
               <<Num(a), Sym("+"), Num(b), Sym("*"), Num(c)>>)

MultFirstDraws(min, max) ==
    RandInt(max - min + 1) \X RandInt(9) \X RandInt(9)

\* generateParentheses(min, max, numOperands);
\*   3 operands: r = <<a, b, c, inner, outer>>, inner = 0 for "+",
\*               outer = 0 for "*" (Math.random() < 0.5)
\*   otherwise : r = <<a, b, c, d>>
generateParentheses(min, max, numOperands, r) ==
    IF numOperands = 3
    THEN LET a0 == r[1] + min
             b0 == r[2] + min
             c == r[3] + 2
             innerOp == IF r[4] = 0 THEN "+" ELSE "-"
             outerOp == IF r[5] = 0 THEN "*" ELSE "+"
             swap == innerOp = "-" /\ b0 > a0
             a == IF swap THEN b0 ELSE a0
             b == IF swap THEN a0 ELSE b0
             innerResult == IF innerOp = "+" THEN a + b ELSE a - b
             answer == IF outerOp = "*" THEN innerResult * c
                       ELSE innerResult + c
         IN  Puzzle(a, b, "complex", answer,
                    <<Sym("("), Num(a), Sym(innerOp), Num(b), Sym(")"),
                      Sym(outerOp), Num(c)>>)
    ELSE LET a0 == r[1] + min
             b0 == r[2] + min
             c0 == r[3] + min
             d0 == r[4] + min
             a == IF b0 > a0 THEN b0 ELSE a0
             b == IF b0 > a0 THEN a0 ELSE b0
             c == IF d0 > c0 THEN d0 ELSE c0
             d == IF d0 > c0 THEN c0 ELSE d0
             left == a + b
             right == c - d
         IN  Puzzle(a, b, "complex", left * right,
                    <<Sym("("), Num(a), Sym("+"), Num(b), Sym(")"), Sym("*"),
                      Sym("("), Num(c), Sym("-"), Num(d), Sym(")")>>)

ParenthesesDraws(min, max, numOperands) ==
    IF numOperands = 3
    THEN RandInt(max - min + 1) \X RandInt(max - min + 1) \X RandInt(9)
             \X RandInt(2) \X RandInt(2)
    ELSE RandInt(max - min + 1) \X RandInt(max - min + 1)
             \X RandInt(max - min + 1) \X RandInt(max - min + 1)

\* the first value of a + b * c - d in the 4-operand form of
\* generateMixedOperations; r = <<a, b, c, d, margin>>, where r[4] is
\* Math.floor(Math.random() * Math.min(max, 20)) and the d drawn is
\* (r[4] - min + 1) + min
mixedFirstAnswer(min, max, r) ==
    (r[1] + min) + ((r[2] + 2) * (r[3] + 2)) - ((r[4] - min + 1) + min)

\* generateMixedOperations with the display built before the inflation
generateMixedOperations_staleDisplay(min, max, numOperands, r) ==
    IF numOperands = 3
    THEN generateMultFirst(min, max, r)
    ELSE LET a0 == r[1] + min
             b == r[2] + 2
             c == r[3] + 2
             d == (r[4] - min + 1) + min
             first == a0 + (b * c) - d
             a == IF first < 0 THEN a0 + Abs(first) + r[5] + 5 ELSE a0
         IN  Puzzle(a, b, "complex", a + (b * c) - d,
                    <<Num(a0), Sym("+"), Num(b), Sym("*"), Num(c), Sym("-"),
                      Num(d)>>)

\* generateMixedOperations inflating a by twice the deficit
generateMixedOperations_doubleDeficit(min, max, numOperands, r) ==
    IF numOperands = 3
    THEN generateMultFirst(min, max, r)
    ELSE LET a0 == r[1] + min
             b == r[2] + 2
             c == r[3] + 2
             d == (r[4] - min + 1) + min
             first == a0 + (b * c) - d
             a == IF first < 0 THEN a0 + 2 * Abs(first) + r[5] + 5 ELSE a0
         IN  Puzzle(a, b, "complex", a + (b * c) - d,
                    <<Num(a), Sym("+"), Num(b), Sym("*"), Num(c), Sym("-"),
                      Num(d)>>)

\* generateMixedOperations(min, max, numOperands);
\*   3 operands: r = <<a, b, c>>
\*   otherwise : r = <<a, b, c, d, margin>>; the margin is drawn only when
\*               the first value is negative
generateMixedOperations(min, max, numOperands, r) ==
    IF numOperands = 3
    THEN LET a == r[1] + min
             b == r[2] + 2
             c == r[3] + 2
         IN  Puzzle(a, b, "complex", a + (b * c),
                    <<Num(a), Sym("+"), Num(b), Sym("*"), Num(c)>>)
    ELSE LET a0 == r[1] + min
             b == r[2] + 2
             c == r[3] + 2
             d == (r[4] - min + 1) + min
             first == a0 + (b * c) - d
             a == IF first < 0 THEN a0 + Abs(first) + r[5] + 5 ELSE a0
             answer == IF first < 0 THEN a + (b * c) - d ELSE first
         IN  Puzzle(a, b, "complex", answer,
                    <<Num(a), Sym("+"), Num(b), Sym("*"), Num(c), Sym("-"),
                      Num(d)>>)

MixedDraws(min, max, numOperands) ==
    IF numOperands = 3
    THEN RandInt(max - min + 1) \X RandInt(9) \X RandInt(9)
    ELSE RandInt(max - min + 1) \X RandInt(9) \X RandInt(9)
             \X RandInt(Min2(max, 20)) \X RandInt(10)

\* generateComplexPuzzle without the restriction of the list at Medium
problemTypes_unrestricted(lvl) ==
    <<"multiplication_first", "parentheses", "mixed_operations">>

\* generateComplexPuzzle: the pattern list of the level
problemTypes(lvl) ==
    IF lvl = 1
    THEN <<"multiplication_first", "parentheses">>
    ELSE <<"multiplication_first", "parentheses", "mixed_operations">>

\* generateComplexPuzzle(config, level)
generateComplexPuzzle(config, lvl) ==
    LET min == config.range[1]
        max == config.range[2]
    IN  \E k \in RandInt(config.maxOperands - 2),
           t \in RandInt(Len(problemTypes(lvl))) :
           LET numOperands == k + 3
               problemType == problemTypes(lvl)[t + 1]
           IN  CASE problemType = "multiplication_first" ->
                      \E r \in MultFirstDraws(min, max) :
                          /\ puzzle' = generateMultFirst(min, max, r)
                          /\ branch' = "multiplication_first"
                 [] problemType = "parentheses" ->
                      \E r \in ParenthesesDraws(min, max, numOperands) :
                          /\ puzzle' = generateParentheses(min, max,
                                                           numOperands, r)
                          /\ branch' = IF numOperands = 3 THEN "parentheses3"
                                       ELSE "parentheses4"
                 [] OTHER ->
                      \E r \in MixedDraws(min, max, numOperands) :
                          /\ puzzle' = generateMixedOperations(min, max,
                                                               numOperands, r)
                          /\ branch' =
                                IF numOperands = 3 THEN "mixed3"
                                ELSE IF mixedFirstAnswer(min, max, r) < 0
                                     THEN "mixed4_inflated"
                                     ELSE "mixed4"

\* generatePuzzle(level)
generatePuzzle ==
    /\ pc = "ready"
    /\ LET config == DIFFICULTY_LEVELS[level]
       IN  \E useSimple \in RandBelow(config.simpleProb) :
               IF useSimple \/ ~config.useBodmas
               THEN \E r \in SimpleDraws(config) :
                        /\ puzzle' = generateSimplePuzzle(config, r)
                        /\ branch' = "simple"
               ELSE generateComplexPuzzle(config, level)
    /\ pc' = "done"
    /\ UNCHANGED <<level, engineVars, ratingVars, gameVars>>

InitGenerator ==
    /\ pc = "ready"
    /\ level \in Levels
    /\ puzzle = NoPuzzle
    /\ branch = "none"
    /\ difficulty = 0
    /\ performance = <<>>
    /\ modelTrained = FALSE
    /\ prediction = NoPrediction
    /\ nextDiff = 0
    /\ ruleNextDiff = 0
    /\ scriptNextDiff = 0
    /\ rejected = FALSE
    /\ RatingIdle
    /\ GameIdle

NextGenerator == generatePuzzle

SpecGenerator == InitGenerator /\ [][NextGenerator]_vars

---------------------------------------------------------------------------
(* The adaptive engine: mlEngine.js, script.js                             *)

\* bounds of the inputs
MaxHistory == 4
TimeStep == 4000
ProbDenominator == 10

\* the literals of the decision rule
WindowSize == 3
MinHistory == 2
HighAccuracyPct == 80
MidAccuracyPct == 67
FastTimeMs == 8000

\* response times in milliseconds
Times == {TimeStep, 2 * TimeStep, 3 * TimeStep}

\* the fields of an attempt record that the engine reads
Attempts == [correct : BOOLEAN, time : Times]

Histories == UNION {[1..n -> Attempts] : n \in 0..MaxHistory}

\* the outcomes of adaptiveModel.predict(features) and prediction.data():
\* an exception, or three softmax outputs, here in units of
\* 1 / ProbDenominator
Softmax ==
    {d \in RandInt(ProbDenominator + 1) \X RandInt(ProbDenominator + 1)
               \X RandInt(ProbDenominator + 1) :
        d[1] + d[2] + d[3] = ProbDenominator}

Predictions ==
    {[threw |-> FALSE, data |-> d] : d \in Softmax}
        \cup {[threw |-> TRUE, data |-> <<0, 0, 0>>]}

\* predictionData.indexOf(Math.max(...predictionData))
indexOfMax(data) ==
    LET m == Max2(data[1], Max2(data[2], data[3]))
    IN  CHOOSE i \in 0..2 :
            /\ data[i + 1] = m
            /\ \A j \in 0..2 : j < i => data[j + 1] # m

\* perfHistory.slice(-3)
slice(perfHistory, n) ==
    IF Len(perfHistory) <= n THEN perfHistory
    ELSE SubSeq(perfHistory, Len(perfHistory) - n + 1, Len(perfHistory))

\* recent.filter(p => p.correct).length
correctCount(recent) ==
    Cardinality({i \in 1..Len(recent) : recent[i].correct})

\* recent.reduce((sum, p) => sum + p.time, 0)
RECURSIVE sumTime(_)
sumTime(recent) ==
    IF recent = <<>> THEN 0 ELSE recent[1].time + sumTime(Tail(recent))

\* ruleScore with the middle threshold at 0.5
ruleScore_midHalf(recent) ==
    LET n == Len(recent)
        correct == correctCount(recent)
        total == sumTime(recent)
    IN  IF correct * 100 >= HighAccuracyPct * n /\ total < FastTimeMs * n
        THEN 1
        ELSE IF correct * 100 >= 50 * n THEN 0
        ELSE -1

\* ruleScore with avgTime <= 8000 as the speed test
ruleScore_timeInclusive(recent) ==
    LET n == Len(recent)
        correct == correctCount(recent)
        total == sumTime(recent)
    IN  IF correct * 100 >= HighAccuracyPct * n /\ total <= FastTimeMs * n
        THEN 1
        ELSE IF correct * 100 >= MidAccuracyPct * n THEN 0
        ELSE -1

\* ruleScore with a slow window of good answers scored as a decrease
ruleScore_slowPenalty(recent) ==
    LET n == Len(recent)
        correct == correctCount(recent)
        total == sumTime(recent)
    IN  IF correct * 100 >= HighAccuracyPct * n /\ total < FastTimeMs * n
        THEN 1
        ELSE IF correct * 100 >= MidAccuracyPct * n /\ total < FastTimeMs * n
        THEN 0
        ELSE -1

\* ruleScore with the middle threshold at 0.6
ruleScore_midSixty(recent) ==
    LET n == Len(recent)
        correct == correctCount(recent)
        total == sumTime(recent)
    IN  IF correct * 100 >= HighAccuracyPct * n /\ total < FastTimeMs * n
        THEN 1
        ELSE IF correct * 100 >= 60 * n THEN 0
        ELSE -1

\* The rule of calculateNextDifficultyRuleBased and of script.js's
\* calculateNextDifficulty, +1, 0 or -1.  recentAccuracy = correct / n and
\* avgTime = total / n are compared as fractions:
\*   recentAccuracy >= 0.8   iff  correct * 100 >= 80 * n
\*   recentAccuracy >= 0.67  iff  correct * 100 >= 67 * n
\*   avgTime < 8000          iff  total < 8000 * n
ruleScore(recent) ==
    LET n == Len(recent)
        correct == correctCount(recent)
        total == sumTime(recent)
    IN  IF correct * 100 >= HighAccuracyPct * n /\ total < FastTimeMs * n
        THEN 1
        ELSE IF correct * 100 >= MidAccuracyPct * n THEN 0
        ELSE -1

\* calculateNextDifficultyRuleBased without Math.min(2, ...)
calculateNextDifficultyRuleBased_noUpperClamp(currentDiff, perfHistory) ==
    IF Len(perfHistory) < MinHistory THEN currentDiff
    ELSE Max2(0, currentDiff + ruleScore(slice(perfHistory, WindowSize)))

\* calculateNextDifficultyRuleBased without Math.max(0, ..)
calculateNextDifficultyRuleBased_noLowerClamp(currentDiff, perfHistory) ==
    IF Len(perfHistory) < MinHistory THEN currentDiff
    ELSE Min2(2, currentDiff + ruleScore(slice(perfHistory, WindowSize)))

\* calculateNextDifficultyRuleBased(currentDiff, perfHistory), mlEngine.js
calculateNextDifficultyRuleBased(currentDiff, perfHistory) ==
    IF Len(perfHistory) < MinHistory THEN currentDiff
    ELSE Max2(0, Min2(2, currentDiff
                             + ruleScore(slice(perfHistory, WindowSize))))

\* calculateNextDifficulty(currentDiff, perfHistory), script.js
scriptCalculateNextDifficulty(currentDiff, perfHistory) ==
    IF Len(perfHistory) < MinHistory THEN currentDiff
    ELSE Max2(0, Min2(2, currentDiff
                             + ruleScore(slice(perfHistory, WindowSize))))

\* submitAnswer's callbacks in script.js, one after each of the first k
\* records of h: the level after them, starting from level d0
RECURSIVE scriptLevelAfter(_, _, _)
scriptLevelAfter(d0, h, k) ==
    IF k = 0 THEN d0
    ELSE scriptCalculateNextDifficulty(scriptLevelAfter(d0, h, k - 1),
                                       SubSeq(h, 1, k))

\* calculateNextDifficultyML without the test perfHistory.length < 2
calculateNextDifficultyML_noLengthGuard(currentDiff, perfHistory, p) ==
    IF ~modelTrained
    THEN calculateNextDifficultyRuleBased(currentDiff, perfHistory)
    ELSE IF p.threw
         THEN calculateNextDifficultyRuleBased(currentDiff, perfHistory)
         ELSE indexOfMax(p.data)

\* calculateNextDifficultyML(currentDiff, perfHistory), mlEngine.js; p is
\* the outcome of the prediction inside its try block
calculateNextDifficultyML(currentDiff, perfHistory, p) ==
    IF ~modelTrained \/ Len(perfHistory) < MinHistory
    THEN calculateNextDifficultyRuleBased(currentDiff, perfHistory)
    ELSE IF p.threw
         THEN calculateNextDifficultyRuleBased(currentDiff, perfHistory)
         ELSE indexOfMax(p.data)

\* calculateNextDifficulty(currentDiff, perfHistory), mlEngine.js
calculateNextDifficulty(currentDiff, perfHistory, p) ==
    IF modelTrained
    THEN calculateNextDifficultyML(currentDiff, perfHistory, p)
    ELSE calculateNextDifficultyRuleBased(currentDiff, perfHistory)

\* calculateNextDifficultyML with the exception of the prediction left
\* uncaught
calculateNextDifficultyMLRejects_noCatch(perfHistory, p) ==
    IF ~modelTrained \/ Len(perfHistory) < MinHistory
    THEN FALSE
    ELSE p.threw

\* Whether the promise of calculateNextDifficultyML is rejected.  The early
\* return runs no code that throws; an exception of the prediction is
\* raised inside the try block, whose catch clause returns the rule-based
\* decision.
calculateNextDifficultyMLRejects(perfHistory, p) ==
    IF ~modelTrained \/ Len(perfHistory) < MinHistory
    THEN FALSE
    ELSE LET raised == p.threw
             caught == TRUE
         IN  raised /\ ~caught

\* Whether the promise of calculateNextDifficulty (mlEngine.js) is rejected
calculateNextDifficultyRejects(perfHistory, p) ==
    IF modelTrained
    THEN calculateNextDifficultyMLRejects(perfHistory, p)
    ELSE FALSE

\* One adaptation: calculateNextDifficulty(gameState.difficulty,
\* gameState.performance) in both builds, and the rule-based fallback on
\* its own.  A trained predictor may give any output.
Adapt ==
    /\ pc = "ready"
    /\ \E p \in (IF modelTrained THEN Predictions ELSE {NoPrediction}) :
           /\ prediction' = p
           /\ nextDiff' = calculateNextDifficulty(difficulty, performance, p)
           /\ rejected' = calculateNextDifficultyRejects(performance, p)
    /\ ruleNextDiff' =
           calculateNextDifficultyRuleBased(difficulty, performance)
    /\ scriptNextDiff' = scriptCalculateNextDifficulty(difficulty, performance)
    /\ pc' = "done"
    /\ UNCHANGED <<difficulty, performance, modelTrained, generatorVars,
                   ratingVars, gameVars>>

InitEngine ==
    /\ pc = "ready"
    /\ difficulty \in Levels
    /\ performance \in Histories
    /\ modelTrained \in BOOLEAN
    /\ prediction = NoPrediction
    /\ nextDiff = difficulty
    /\ ruleNextDiff = difficulty
    /\ scriptNextDiff = difficulty
    /\ rejected = FALSE
    /\ level = 0
    /\ puzzle = NoPuzzle
    /\ branch = "none"
    /\ RatingIdle
    /\ GameIdle

NextEngine == Adapt

SpecEngine == InitEngine /\ [][NextEngine]_vars


---------------------------------------------------------------------------
(* The rating system: rating.js, and its calls in showSummary              *)
(*                                                                         *)
(* The ratings are computed in exact arithmetic on scaled integers.        *)
(* Math.round(x) is the integer n with n - 1/2 <= x < n + 1/2.             *)

MaxAvgSeconds == 20
MaxSessions == 3

\* The accuracies showSummary can pass, (..).toFixed(1) of a percentage,
\* and mean response times in whole seconds
Accuracies == 0..1000
AvgTimes == {1000 * sec : sec \in 0..MaxAvgSeconds}

\* difficultyMultiplier[finalDifficulty], in tenths
difficultyMultiplier(finalDiff) ==
    CASE finalDiff = 0 -> 10
      [] finalDiff = 1 -> 15
      [] finalDiff = 2 -> 20

\* calculateSessionRating with the bonus given from accuracy 80 on
calculateSessionRating_bonusAtEighty(acc, time, finalDiff) ==
    LET accuracyPart == 50 * acc
        speedScore == Max2(0, 30000 - 2 * time)
        multiplied ==
            (accuracyPart + speedScore) * difficultyMultiplier(finalDiff)
        bonus == IF acc >= 800 THEN 100000 ELSE 0
    IN  (multiplied + bonus + 500) \div 1000

\* calculateSessionRating(accuracy, avgTime, finalDifficulty).  With acc in
\* tenths of a percent and time in ms, accuracy * 5 is 50 * acc hundredths
\* of a point and avgTime / 15000 * 300 is 2 * time hundredths; after the
\* multiplier, in tenths, the rating is in thousandths of a point.
calculateSessionRating(acc, time, finalDiff) ==
    LET accuracyPart == 50 * acc
        speedScore == Max2(0, 30000 - 2 * time)
        multiplied ==
            (accuracyPart + speedScore) * difficultyMultiplier(finalDiff)
        bonus == IF acc > 800 THEN 100000 ELSE 0
    IN  (multiplied + bonus + 500) \div 1000

\* floor(2000 * expectedScore) for the ratings 180 .. 2820, where
\* expectedScore = 1 / (1 + 10 ^ ((1500 - oldRating) / 400))
ExpectedScoreTable ==
    <<
     1, 1, 1, 1, 1, 1, 1, 1, 1, 1, 1, 1, 1, 1, 1, 1, 1, 1, 1, 1, 1, 1, 1,
     1, 1, 1, 1, 1, 1, 1, 1, 1, 1, 1, 1, 1, 1, 1, 1, 1, 1, 1, 1, 1, 1, 1,
     1, 1, 1, 1, 1, 1, 1, 1, 1, 1, 1, 1, 1, 1, 1, 1, 1, 1, 1, 1, 1, 1, 1,
     1, 1, 1, 1, 1, 1, 1, 1, 1, 1, 1, 1, 1, 1, 1, 1, 1, 1, 1, 1, 1, 1, 1,
     1, 1, 1, 1, 1, 1, 1, 1, 1, 1, 1, 1, 1, 1, 1, 1, 1, 1, 1, 1, 1, 1, 1,
     1, 1, 1, 1, 1, 1, 2, 2, 2, 2, 2, 2, 2, 2, 2, 2, 2, 2, 2, 2, 2, 2, 2,
     2, 2, 2, 2, 2, 2, 2, 2, 2, 2, 2, 2, 2, 2, 2, 2, 2, 2, 2, 2, 2, 2, 2,
     2, 2, 2, 2, 2, 2, 2, 2, 2, 2, 2, 2, 2, 2, 2, 2, 2, 2, 2, 2, 2, 2, 2,
     2, 2, 2, 2, 2, 2, 2, 3, 3, 3, 3, 3, 3, 3, 3, 3, 3, 3, 3, 3, 3, 3, 3,
     3, 3, 3, 3, 3, 3, 3, 3, 3, 3, 3, 3, 3, 3, 3, 3, 3, 3, 3, 3, 3, 3, 3,
     3, 3, 3, 3, 3, 3, 3, 3, 3, 3, 3, 4, 4, 4, 4, 4, 4, 4, 4, 4, 4, 4, 4,
     4, 4, 4, 4, 4, 4, 4, 4, 4, 4, 4, 4, 4, 4, 4, 4, 4, 4, 4, 4, 4, 4, 4,
     4, 4, 4, 4, 5, 5, 5, 5, 5, 5, 5, 5, 5, 5, 5, 5, 5, 5, 5, 5, 5, 5, 5,
     5, 5, 5, 5, 5, 5, 5, 5, 5, 5, 5, 5, 5, 6, 6, 6, 6, 6, 6, 6, 6, 6, 6,
     6, 6, 6, 6, 6, 6, 6, 6, 6, 6, 6, 6, 6, 6, 6, 6, 6, 7, 7, 7, 7, 7, 7,
     7, 7, 7, 7, 7, 7, 7, 7, 7, 7, 7, 7, 7, 7, 7, 7, 7, 8, 8, 8, 8, 8, 8,
     8, 8, 8, 8, 8, 8, 8, 8, 8, 8, 8, 8, 8, 8, 8, 9, 9, 9, 9, 9, 9, 9, 9,
     9, 9, 9, 9, 9, 9, 9, 9, 9, 9, 10, 10, 10, 10, 10, 10, 10, 10, 10, 10,
     10, 10, 10, 10, 10, 10, 10, 11, 11, 11, 11, 11, 11, 11, 11, 11, 11,
     11, 11, 11, 11, 11, 12, 12, 12, 12, 12, 12, 12, 12, 12, 12, 12, 12,
     12, 12, 13, 13, 13, 13, 13, 13, 13, 13, 13, 13, 13, 13, 13, 14, 14,
     14, 14, 14, 14, 14, 14, 14, 14, 14, 14, 15, 15, 15, 15, 15, 15, 15,
     15, 15, 15, 15, 16, 16, 16, 16, 16, 16, 16, 16, 16, 16, 16, 17, 17,
     17, 17, 17, 17, 17, 17, 17, 17, 18, 18, 18, 18, 18, 18, 18, 18, 18,
     19, 19, 19, 19, 19, 19, 19, 19, 19, 20, 20, 20, 20, 20, 20, 20, 20,
     20, 21, 21, 21, 21, 21, 21, 21, 21, 22, 22, 22, 22, 22, 22, 22, 22,
     23, 23, 23, 23, 23, 23, 23, 24, 24, 24, 24, 24, 24, 24, 25, 25, 25,
     25, 25, 25, 25, 26, 26, 26, 26, 26, 26, 26, 27, 27, 27, 27, 27, 27,
     28, 28, 28, 28, 28, 28, 28, 29, 29, 29, 29, 29, 29, 30, 30, 30, 30,
     30, 31, 31, 31, 31, 31, 31, 32, 32, 32, 32, 32, 33, 33, 33, 33, 33,
     33, 34, 34, 34, 34, 34, 35, 35, 35, 35, 35, 36, 36, 36, 36, 36, 37,
     37, 37, 37, 38, 38, 38, 38, 38, 39, 39, 39, 39, 40, 40, 40, 40, 40,
     41, 41, 41, 41, 42, 42, 42, 42, 43, 43, 43, 43, 44, 44, 44, 44, 45,
     45, 45, 45, 46, 46, 46, 46, 47, 47, 47, 47, 48, 48, 48, 49, 49, 49,
     49, 50, 50, 50, 50, 51, 51, 51, 52, 52, 52, 53, 53, 53, 53, 54, 54,
     54, 55, 55, 55, 56, 56, 56, 57, 57, 57, 57, 58, 58, 58, 59, 59, 59,
     60, 60, 60, 61, 61, 61, 62, 62, 63, 63, 63, 64, 64, 64, 65, 65, 65,
     66, 66, 67, 67, 67, 68, 68, 68, 69, 69, 70, 70, 70, 71, 71, 72, 72,
     72, 73, 73, 74, 74, 74, 75, 75, 76, 76, 76, 77, 77, 78, 78, 79, 79,
     80, 80, 80, 81, 81, 82, 82, 83, 83, 84, 84, 85, 85, 85, 86, 86, 87,
     87, 88, 88, 89, 89, 90, 90, 91, 91, 92, 92, 93, 93, 94, 94, 95, 95,
     96, 97, 97, 98, 98, 99, 99, 100, 100, 101, 101, 102, 103, 103, 104,
     104, 105, 105, 106, 107, 107, 108, 108, 109, 110, 110, 111, 111, 112,
     113, 113, 114, 114, 115, 116, 116, 117, 118, 118, 119, 119, 120, 121,
     121, 122, 123, 123, 124, 125, 125, 126, 127, 128, 128, 129, 130, 130,
     131, 132, 132, 133, 134, 135, 135, 136, 137, 138, 138, 139, 140, 141,
     141, 142, 143, 144, 144, 145, 146, 147, 147, 148, 149, 150, 151, 151,
     152, 153, 154, 155, 156, 156, 157, 158, 159, 160, 161, 161, 162, 163,
     164, 165, 166, 167, 168, 168, 169, 170, 171, 172, 173, 174, 175, 176,
     177, 178, 178, 179, 180, 181, 182, 183, 184, 185, 186, 187, 188, 189,
     190, 191, 192, 193, 194, 195, 196, 197, 198, 199, 200, 201, 202, 203,
     204, 205, 207, 208, 209, 210, 211, 212, 213, 214, 215, 216, 217, 219,
     220, 221, 222, 223, 224, 225, 227, 228, 229, 230, 231, 232, 234, 235,
     236, 237, 238, 240, 241, 242, 243, 245, 246, 247, 248, 250, 251, 252,
     253, 255, 256, 257, 258, 260, 261, 262, 264, 265, 266, 268, 269, 270,
     272, 273, 274, 276, 277, 279, 280, 281, 283, 284, 286, 287, 288, 290,
     291, 293, 294, 296, 297, 299, 300, 301, 303, 304, 306, 307, 309, 310,
     312, 313, 315, 317, 318, 320, 321, 323, 324, 326, 327, 329, 331, 332,
     334, 335, 337, 339, 340, 342, 344, 345, 347, 348, 350, 352, 353, 355,
     357, 359, 360, 362, 364, 365, 367, 369, 371, 372, 374, 376, 378, 379,
     381, 383, 385, 386, 388, 390, 392, 394, 396, 397, 399, 401, 403, 405,
     407, 408, 410, 412, 414, 416, 418, 420, 422, 424, 426, 428, 429, 431,
     433, 435, 437, 439, 441, 443, 445, 447, 449, 451, 453, 455, 457, 459,
     461, 463, 465, 468, 470, 472, 474, 476, 478, 480, 482, 484, 486, 488,
     491, 493, 495, 497, 499, 501, 504, 506, 508, 510, 512, 514, 517, 519,
     521, 523, 526, 528, 530, 532, 534, 537, 539, 541, 544, 546, 548, 550,
     553, 555, 557, 560, 562, 564, 567, 569, 571, 574, 576, 578, 581, 583,
     586, 588, 590, 593, 595, 598, 600, 602, 605, 607, 610, 612, 615, 617,
     619, 622, 624, 627, 629, 632, 634, 637, 639, 642, 644, 647, 649, 652,
     654, 657, 660, 662, 665, 667, 670, 672, 675, 678, 680, 683, 685, 688,
     690, 693, 696, 698, 701, 704, 706, 709, 711, 714, 717, 719, 722, 725,
     727, 730, 733, 735, 738, 741, 743, 746, 749, 751, 754, 757, 760, 762,
     765, 768, 770, 773, 776, 779, 781, 784, 787, 790, 792, 795, 798, 801,
     803, 806, 809, 812, 815, 817, 820, 823, 826, 829, 831, 834, 837, 840,
     843, 845, 848, 851, 854, 857, 859, 862, 865, 868, 871, 874, 876, 879,
     882, 885, 888, 891, 893, 896, 899, 902, 905, 908, 911, 913, 916, 919,
     922, 925, 928, 931, 933, 936, 939, 942, 945, 948, 951, 953, 956, 959,
     962, 965, 968, 971, 974, 976, 979, 982, 985, 988, 991, 994, 997, 1000,
     1002, 1005, 1008, 1011, 1014, 1017, 1020, 1023, 1025, 1028, 1031,
     1034, 1037, 1040, 1043, 1046, 1048, 1051, 1054, 1057, 1060, 1063,
     1066, 1068, 1071, 1074, 1077, 1080, 1083, 1086, 1088, 1091, 1094,
     1097, 1100, 1103, 1106, 1108, 1111, 1114, 1117, 1120, 1123, 1125,
     1128, 1131, 1134, 1137, 1140, 1142, 1145, 1148, 1151, 1154, 1156,
     1159, 1162, 1165, 1168, 1170, 1173, 1176, 1179, 1182, 1184, 1187,
     1190, 1193, 1196, 1198, 1201, 1204, 1207, 1209, 1212, 1215, 1218,
     1220, 1223, 1226, 1229, 1231, 1234, 1237, 1239, 1242, 1245, 1248,
     1250, 1253, 1256, 1258, 1261, 1264, 1266, 1269, 1272, 1274, 1277,
     1280, 1282, 1285, 1288, 1290, 1293, 1295, 1298, 1301, 1303, 1306,
     1309, 1311, 1314, 1316, 1319, 1321, 1324, 1327, 1329, 1332, 1334,
     1337, 1339, 1342, 1345, 1347, 1350, 1352, 1355, 1357, 1360, 1362,
     1365, 1367, 1370, 1372, 1375, 1377, 1380, 1382, 1384, 1387, 1389,
     1392, 1394, 1397, 1399, 1401, 1404, 1406, 1409, 1411, 1413, 1416,
     1418, 1421, 1423, 1425, 1428, 1430, 1432, 1435, 1437, 1439, 1442,
     1444, 1446, 1449, 1451, 1453, 1455, 1458, 1460, 1462, 1465, 1467,
     1469, 1471, 1473, 1476, 1478, 1480, 1482, 1485, 1487, 1489, 1491,
     1493, 1495, 1498, 1500, 1502, 1504, 1506, 1508, 1511, 1513, 1515,
     1517, 1519, 1521, 1523, 1525, 1527, 1529, 1531, 1534, 1536, 1538,
     1540, 1542, 1544, 1546, 1548, 1550, 1552, 1554, 1556, 1558, 1560,
     1562, 1564, 1566, 1568, 1570, 1571, 1573, 1575, 1577, 1579, 1581,
     1583, 1585, 1587, 1589, 1591, 1592, 1594, 1596, 1598, 1600, 1602,
     1603, 1605, 1607, 1609, 1611, 1613, 1614, 1616, 1618, 1620, 1621,
     1623, 1625, 1627, 1628, 1630, 1632, 1634, 1635, 1637, 1639, 1640,
     1642, 1644, 1646, 1647, 1649, 1651, 1652, 1654, 1655, 1657, 1659,
     1660, 1662, 1664, 1665, 1667, 1668, 1670, 1672, 1673, 1675, 1676,
     1678, 1679, 1681, 1682, 1684, 1686, 1687, 1689, 1690, 1692, 1693,
     1695, 1696, 1698, 1699, 1700, 1702, 1703, 1705, 1706, 1708, 1709,
     1711, 1712, 1713, 1715, 1716, 1718, 1719, 1720, 1722, 1723, 1725,
     1726, 1727, 1729, 1730, 1731, 1733, 1734, 1735, 1737, 1738, 1739,
     1741, 1742, 1743, 1744, 1746, 1747, 1748, 1749, 1751, 1752, 1753,
     1754, 1756, 1757, 1758, 1759, 1761, 1762, 1763, 1764, 1765, 1767,
     1768, 1769, 1770, 1771, 1772, 1774, 1775, 1776, 1777, 1778, 1779,
     1780, 1782, 1783, 1784, 1785, 1786, 1787, 1788, 1789, 1790, 1791,
     1792, 1794, 1795, 1796, 1797, 1798, 1799, 1800, 1801, 1802, 1803,
     1804, 1805, 1806, 1807, 1808, 1809, 1810, 1811, 1812, 1813, 1814,
     1815, 1816, 1817, 1818, 1819, 1820, 1821, 1821, 1822, 1823, 1824,
     1825, 1826, 1827, 1828, 1829, 1830, 1831, 1831, 1832, 1833, 1834,
     1835, 1836, 1837, 1838, 1838, 1839, 1840, 1841, 1842, 1843, 1843,
     1844, 1845, 1846, 1847, 1848, 1848, 1849, 1850, 1851, 1852, 1852,
     1853, 1854, 1855, 1855, 1856, 1857, 1858, 1858, 1859, 1860, 1861,
     1861, 1862, 1863, 1864, 1864, 1865, 1866, 1867, 1867, 1868, 1869,
     1869, 1870, 1871, 1871, 1872, 1873, 1874, 1874, 1875, 1876, 1876,
     1877, 1878, 1878, 1879, 1880, 1880, 1881, 1881, 1882, 1883, 1883,
     1884, 1885, 1885, 1886, 1886, 1887, 1888, 1888, 1889, 1889, 1890,
     1891, 1891, 1892, 1892, 1893, 1894, 1894, 1895, 1895, 1896, 1896,
     1897, 1898, 1898, 1899, 1899, 1900, 1900, 1901, 1901, 1902, 1902,
     1903, 1904, 1904, 1905, 1905, 1906, 1906, 1907, 1907, 1908, 1908,
     1909, 1909, 1910, 1910, 1911, 1911, 1912, 1912, 1913, 1913, 1914,
     1914, 1914, 1915, 1915, 1916, 1916, 1917, 1917, 1918, 1918, 1919,
     1919, 1919, 1920, 1920, 1921, 1921, 1922, 1922, 1923, 1923, 1923,
     1924, 1924, 1925, 1925, 1925, 1926, 1926, 1927, 1927, 1927, 1928,
     1928, 1929, 1929, 1929, 1930, 1930, 1931, 1931, 1931, 1932, 1932,
     1932, 1933, 1933, 1934, 1934, 1934, 1935, 1935, 1935, 1936, 1936,
     1936, 1937, 1937, 1938, 1938, 1938, 1939, 1939, 1939, 1940, 1940,
     1940, 1941, 1941, 1941, 1942, 1942, 1942, 1942, 1943, 1943, 1943,
     1944, 1944, 1944, 1945, 1945, 1945, 1946, 1946, 1946, 1946, 1947,
     1947, 1947, 1948, 1948, 1948, 1949, 1949, 1949, 1949, 1950, 1950,
     1950, 1950, 1951, 1951, 1951, 1952, 1952, 1952, 1952, 1953, 1953,
     1953, 1953, 1954, 1954, 1954, 1954, 1955, 1955, 1955, 1955, 1956,
     1956, 1956, 1956, 1957, 1957, 1957, 1957, 1958, 1958, 1958, 1958,
     1959, 1959, 1959, 1959, 1959, 1960, 1960, 1960, 1960, 1961, 1961,
     1961, 1961, 1961, 1962, 1962, 1962, 1962, 1963, 1963, 1963, 1963,
     1963, 1964, 1964, 1964, 1964, 1964, 1965, 1965, 1965, 1965, 1965,
     1966, 1966, 1966, 1966, 1966, 1966, 1967, 1967, 1967, 1967, 1967,
     1968, 1968, 1968, 1968, 1968, 1968, 1969, 1969, 1969, 1969, 1969,
     1970, 1970, 1970, 1970, 1970, 1970, 1971, 1971, 1971, 1971, 1971,
     1971, 1971, 1972, 1972, 1972, 1972, 1972, 1972, 1973, 1973, 1973,
     1973, 1973, 1973, 1973, 1974, 1974, 1974, 1974, 1974, 1974, 1974,
     1975, 1975, 1975, 1975, 1975, 1975, 1975, 1976, 1976, 1976, 1976,
     1976, 1976, 1976, 1977, 1977, 1977, 1977, 1977, 1977, 1977, 1977,
     1978, 1978, 1978, 1978, 1978, 1978, 1978, 1978, 1979, 1979, 1979,
     1979, 1979, 1979, 1979, 1979, 1979, 1980, 1980, 1980, 1980, 1980,
     1980, 1980, 1980, 1980, 1981, 1981, 1981, 1981, 1981, 1981, 1981,
     1981, 1981, 1982, 1982, 1982, 1982, 1982, 1982, 1982, 1982, 1982,
     1982, 1983, 1983, 1983, 1983, 1983, 1983, 1983, 1983, 1983, 1983,
     1983, 1984, 1984, 1984, 1984, 1984, 1984, 1984, 1984, 1984, 1984,
     1984, 1985, 1985, 1985, 1985, 1985, 1985, 1985, 1985, 1985, 1985,
     1985, 1985, 1986, 1986, 1986, 1986, 1986, 1986, 1986, 1986, 1986,
     1986, 1986, 1986, 1986, 1987, 1987, 1987, 1987, 1987, 1987, 1987,
     1987, 1987, 1987, 1987, 1987, 1987, 1987, 1988, 1988, 1988, 1988,
     1988, 1988, 1988, 1988, 1988, 1988, 1988, 1988, 1988, 1988, 1988,
     1989, 1989, 1989, 1989, 1989, 1989, 1989, 1989, 1989, 1989, 1989,
     1989, 1989, 1989, 1989, 1989, 1989, 1990, 1990, 1990, 1990, 1990,
     1990, 1990, 1990, 1990, 1990, 1990, 1990, 1990, 1990, 1990, 1990,
     1990, 1990, 1991, 1991, 1991, 1991, 1991, 1991, 1991, 1991, 1991,
     1991, 1991, 1991, 1991, 1991, 1991, 1991, 1991, 1991, 1991, 1991,
     1991, 1992, 1992, 1992, 1992, 1992, 1992, 1992, 1992, 1992, 1992,
     1992, 1992, 1992, 1992, 1992, 1992, 1992, 1992, 1992, 1992, 1992,
     1992, 1992, 1993, 1993, 1993, 1993, 1993, 1993, 1993, 1993, 1993,
     1993, 1993, 1993, 1993, 1993, 1993, 1993, 1993, 1993, 1993, 1993,
     1993, 1993, 1993, 1993, 1993, 1993, 1993, 1994, 1994, 1994, 1994,
     1994, 1994, 1994, 1994, 1994, 1994, 1994, 1994, 1994, 1994, 1994,
     1994, 1994, 1994, 1994, 1994, 1994, 1994, 1994, 1994, 1994, 1994,
     1994, 1994, 1994, 1994, 1994, 1994, 1995, 1995, 1995, 1995, 1995,
     1995, 1995, 1995, 1995, 1995, 1995, 1995, 1995, 1995, 1995, 1995,
     1995, 1995, 1995, 1995, 1995, 1995, 1995, 1995, 1995, 1995, 1995,
     1995, 1995, 1995, 1995, 1995, 1995, 1995, 1995, 1995, 1995, 1995,
     1995, 1996, 1996, 1996, 1996, 1996, 1996, 1996, 1996, 1996, 1996,
     1996, 1996, 1996, 1996, 1996, 1996, 1996, 1996, 1996, 1996, 1996,
     1996, 1996, 1996, 1996, 1996, 1996, 1996, 1996, 1996, 1996, 1996,
     1996, 1996, 1996, 1996, 1996, 1996, 1996, 1996, 1996, 1996, 1996,
     1996, 1996, 1996, 1996, 1996, 1996, 1996, 1997, 1997, 1997, 1997,
     1997, 1997, 1997, 1997, 1997, 1997, 1997, 1997, 1997, 1997, 1997,
     1997, 1997, 1997, 1997, 1997, 1997, 1997, 1997, 1997, 1997, 1997,
     1997, 1997, 1997, 1997, 1997, 1997, 1997, 1997, 1997, 1997, 1997,
     1997, 1997, 1997, 1997, 1997, 1997, 1997, 1997, 1997, 1997, 1997,
     1997, 1997, 1997, 1997, 1997, 1997, 1997, 1997, 1997, 1997, 1997,
     1997, 1997, 1997, 1997, 1997, 1997, 1997, 1997, 1997, 1997, 1997,
     1998, 1998, 1998, 1998, 1998, 1998, 1998, 1998, 1998, 1998, 1998,
     1998, 1998, 1998, 1998, 1998, 1998, 1998, 1998, 1998, 1998, 1998,
     1998, 1998, 1998, 1998, 1998, 1998, 1998, 1998, 1998, 1998, 1998,
     1998, 1998, 1998, 1998, 1998, 1998, 1998, 1998, 1998, 1998, 1998,
     1998, 1998, 1998, 1998, 1998, 1998, 1998, 1998, 1998, 1998, 1998,
     1998, 1998, 1998, 1998, 1998, 1998, 1998, 1998, 1998, 1998, 1998,
     1998, 1998, 1998, 1998, 1998, 1998, 1998, 1998, 1998, 1998, 1998,
     1998, 1998, 1998, 1998, 1998, 1998, 1998, 1998, 1998, 1998, 1998,
     1998, 1998, 1998, 1998, 1998, 1998, 1998, 1998, 1998, 1998, 1998,
     1998, 1998, 1998, 1998, 1998, 1998, 1998, 1998, 1998, 1998, 1998,
     1998, 1998, 1998, 1998, 1998, 1998, 1998, 1998, 1998, 1998, 1998
    >>

\* floor(2000 * expectedScore): 0 below rating 180 and 1999 above 2820
expectedScore2000(oldRating) ==
    IF oldRating < 180 THEN 0
    ELSE IF oldRating > 2820 THEN 1999
    ELSE ExpectedScoreTable[oldRating - 179]

\* 2000 * expectedScore is an integer only at rating 1500, where
\* expectedScore = 1/2; at every other rating it is irrational
expectedScoreIsExact(oldRating) == oldRating = 1500

\* kFactor with 10 games still counted as new
kFactor_tenInclusive(gamesPlayed) == IF gamesPlayed <= 10 THEN 40 ELSE 20

\* kFactor
kFactor(gamesPlayed) == IF gamesPlayed < 10 THEN 40 ELSE 20

\* ratingChange = Math.round(kFactor * (actualScore - expectedScore)).
\* With a = 1000 * actualScore and E = floor(2000 * expectedScore),
\*     2000 * kFactor * (actualScore - expectedScore)
\* lies strictly between kFactor * (2a - E - 1) and kFactor * (2a - E)
\* (or is kFactor * (2a - E) when 2000 * expectedScore = E).  Both ends,
\* plus 1000, are multiples of kFactor, and 2000 is one, so no multiple of
\* 2000 lies strictly between them and the rounding is that of the lower
\* end.
ratingChangeOf(oldRating, score, gamesPlayed) ==
    LET actualScore == Min2(score, 1000)
        below == IF expectedScoreIsExact(oldRating) THEN 0 ELSE 1
        twice == 2 * actualScore - expectedScore2000(oldRating) - below
    IN  (kFactor(gamesPlayed) * twice + 1000) \div 2000

\* the new rating without the floor of 100
newRating_noFloor(oldRating, change) == oldRating + change

\* userData.rating = Math.max(100, oldRating + ratingChange)
newRating(oldRating, change) == Max2(100, oldRating + change)

\* updatePlayerRating(sessionScore): userData after the call
updatePlayerRating(data, score) ==
    LET change == ratingChangeOf(data.rating, score, data.gamesPlayed)
        rating == newRating(data.rating, change)
    IN  [data EXCEPT !.rating = rating,
                     !.bestRating = IF rating > data.bestRating
                                    THEN rating ELSE data.bestRating]

\* One call of calculateSessionRating, as showSummary makes it
ScoreSession ==
    /\ pc = "ready"
    /\ sessionScore' =
           calculateSessionRating(accuracy, avgTime, finalDifficulty)
    /\ pc' = "done"
    /\ UNCHANGED <<accuracy, avgTime, finalDifficulty, userData,
                   userDataBefore, ratingChange, sessions, userDoc,
                   sessionDocs, loadPending>>
    /\ UNCHANGED <<generatorVars, engineVars, gameVars>>

InitScore ==
    /\ pc = "ready"
    /\ accuracy \in Accuracies
    /\ avgTime \in AvgTimes
    /\ finalDifficulty \in Levels
    /\ sessionScore = 0
    /\ userData = InitialUserData
    /\ userDataBefore = InitialUserData
    /\ ratingChange = 0
    /\ sessions = 0
    /\ userDoc = NoDocument
    /\ sessionDocs = 0
    /\ loadPending = FALSE
    /\ InitGeneratorIdle
    /\ InitEngineIdle
    /\ GameIdle

NextScore == ScoreSession

SpecScore == InitScore /\ [][NextScore]_vars

\* The ratings, counts of games and session scores the summaries start from
InitialRatings == {r \in 1..2900 : r % 50 = 0} \cup (95..140)
InitialGames == {0, 5, 8, 9, 10}
SessionScores == {0, 400, 800, 1000, 1580, 1700}

\* The rating part of showSummary for a signed-in player:
\* ratingChange = updatePlayerRating(sessionScore); userData.gamesPlayed++
RateSession ==
    /\ sessions < MaxSessions
    /\ \E score \in SessionScores :
           /\ sessionScore' = score
           /\ ratingChange' =
                  ratingChangeOf(userData.rating, score, userData.gamesPlayed)
           /\ userData' =
                  [updatePlayerRating(userData, score)
                      EXCEPT !.gamesPlayed = userData.gamesPlayed + 1]
    /\ userDataBefore' = userData
    /\ sessions' = sessions + 1
    /\ UNCHANGED <<pc, accuracy, avgTime, finalDifficulty, userDoc,
                   sessionDocs, loadPending>>
    /\ UNCHANGED <<generatorVars, engineVars, gameVars>>

InitRating ==
    /\ pc = "ready"
    /\ \E r \in InitialRatings, g \in InitialGames, best \in {0, 25} :
           userData = [rating |-> r, gamesPlayed |-> g,
                       totalAccuracy |-> 0, bestRating |-> r + best]
    /\ userDataBefore = userData
    /\ accuracy = 0
    /\ avgTime = 0
    /\ finalDifficulty = 0
    /\ sessionScore = 0
    /\ ratingChange = 0
    /\ sessions = 0
    /\ userDoc = NoDocument
    /\ sessionDocs = 0
    /\ loadPending = FALSE
    /\ InitGeneratorIdle
    /\ InitEngineIdle
    /\ GameIdle

NextRating == RateSession

SpecRating == InitRating /\ [][NextRating]_vars

---------------------------------------------------------------------------
(* The game flow: rating.js, showSummary in puzzleGenerator.js, and the    *)
(* initialization of the predictor in mlEngine.js                          *)
(*                                                                         *)
(* A control is used on the screen the code shows it on: the level buttons *)
(* and Start on the welcome screen while no loading overlay covers it, the *)
(* answer box while puzzleArea is displayed, Play Again on the summary.    *)
(* submitAnswer itself tests only that the box holds a value, and the page *)
(* that holds the controls is not among the scripts: NextGame has the      *)
(* answers submitted once for each puzzle on display, NextGameResubmit     *)
(* adds the calls made while the feedback is shown.  In NextGame an        *)
(* initialization abandoned at its timeout makes no further step;          *)
(* NextGameOverlap lets it go on in the background.                        *)
(* From the puzzle on display the game keeps whether the submitted answer  *)
(* equals its answer; the puzzles themselves are those of generatePuzzle.  *)
(* A guest plays: gameState.isSignedIn keeps its initial value.  What the  *)
(* last adaptation and the last summary computed is kept until the next   *)
(* answer is submitted and until Play Again.                              *)
(*                                                                         *)
(* Promise continuations run before the next event, so an event and the    *)
(* continuations it releases are one step.  While initializeMLModel waits  *)
(* for its race, time passes in steps of ClockStep up to the moment the    *)
(* timeout is due.                                                         *)

MAX_PUZZLES == 10
MobileTimeoutMs == 8000
DesktopTimeoutMs == 15000
ClockStep == 5000
MaxGames == 2
MaxPending == 2

\* timeoutDuration
timeoutDuration(mobile) == IF mobile THEN MobileTimeoutMs ELSE DesktopTimeoutMs

\* The attempts a player makes in a game: right or wrong, answered in
\* TimeStep ms
GameAttempts == [correct : BOOLEAN, time : {TimeStep}]

\* What a trained predictor gives in a game: one of the three classes with
\* all the weight, or an exception
GamePredictions ==
    {[threw |-> FALSE,
      data |-> <<IF c = 0 THEN ProbDenominator ELSE 0,
                 IF c = 1 THEN ProbDenominator ELSE 0,
                 IF c = 2 THEN ProbDenominator ELSE 0>>] : c \in 0..2}
        \cup {[threw |-> TRUE, data |-> <<0, 0, 0>>]}

\* Math.round(a / b) for a >= 0, b > 0, as toFixed rounds
RoundDiv(a, b) == (2 * a + b) \div (2 * b)

\* showSummary: parseFloat(accuracy), in tenths of a percent
summaryAccuracy(perf) == RoundDiv(1000 * correctCount(perf), Len(perf))

\* showSummary: parseFloat(avgTime) * 1000, in ms
summaryAvgTime(perf) == 100 * RoundDiv(sumTime(perf), 100 * Len(perf))

\* selectDifficulty(level)
selectDifficulty(l) ==
    /\ screen = "welcome"
    /\ ~loadingOverlay
    /\ difficulty' = l
    /\ UNCHANGED <<pc, generatorVars, ratingVars, gameVars>>
    /\ UNCHANGED <<performance, modelTrained, prediction, nextDiff,
                   ruleNextDiff, scriptNextDiff, rejected>>

\* showNewPuzzle, as the n + 1st puzzle of the game: the puzzle is
\* displayed and the answer box emptied
showNewPuzzle(n) ==
    /\ puzzleShown' = TRUE
    /\ answerInput' = FALSE
    /\ puzzlesShown' = n + 1

\* startGame going on after the predictor is settled: the game screen
\* replaces the welcome screen and showNewPuzzle displays a puzzle
enterGame(n) ==
    /\ screen' = "game"
    /\ loadingOverlay' = FALSE
    /\ elapsed' = 0
    /\ showNewPuzzle(n)

\* initializeMLModel settling in its catch clause
initFails(outcome) ==
    /\ modelTrained' = FALSE
    /\ initFailures' = initFailures + 1
    /\ initOutcome' = outcome

\* startGame with a valid username, up to its first suspension.  With a
\* trained predictor it goes straight into the game.  Without one it calls
\* initializeMLModel: when tf is not loaded actuallyInitializeML throws at
\* once and the race is lost before any other event; otherwise
\* actuallyInitializeML waits for the backend and startGame waits under
\* the loading overlay.
startGame ==
    /\ screen = "welcome"
    /\ ~loadingOverlay
    /\ sessions < MaxGames
    /\ performance' = <<>>
    /\ puzzleCount' = 0
    /\ adaptCalls' = 0
    /\ summaries' = 0
    /\ IF modelTrained
       THEN /\ enterGame(0)
            /\ UNCHANGED <<modelTrained, initCalls, initFailures,
                           initOutcome, runs>>
       ELSE /\ initCalls' = initCalls + 1
            /\ IF tfLoaded
               THEN /\ runs' = Append(runs, "backend")
                    /\ loadingOverlay' = TRUE
                    /\ initOutcome' = "racing"
                    /\ elapsed' = 0
                    /\ puzzlesShown' = 0
                    /\ UNCHANGED <<screen, puzzleShown, answerInput,
                                   modelTrained, initFailures>>
               ELSE /\ runs' = Append(runs, "failed")
                    /\ initFails("unavailable")
                    /\ enterGame(0)
    /\ UNCHANGED <<pc, generatorVars, ratingVars>>
    /\ UNCHANGED <<difficulty, prediction, nextDiff, ruleNextDiff,
                   scriptNextDiff, rejected>>
    /\ UNCHANGED <<pendingAdvance, lastPerfDifficulty, isSignedIn, isMobile,
                   tfLoaded, adaptiveModel>>

\* what the steps of an initialization leave alone
InitFrame ==
    /\ UNCHANGED <<pc, generatorVars, ratingVars>>
    /\ UNCHANGED <<difficulty, performance, prediction, nextDiff,
                   ruleNextDiff, scriptNextDiff, rejected>>
    /\ UNCHANGED <<pendingAdvance, puzzleCount, adaptCalls, summaries,
                   lastPerfDifficulty, isSignedIn, isMobile, tfLoaded,
                   initCalls>>

\* what a step of an initialization that startGame does not wait for
\* leaves alone
BackgroundFrame ==
    UNCHANGED <<screen, loadingOverlay, puzzleShown, answerInput,
                puzzlesShown, elapsed, modelTrained, initFailures,
                initOutcome>>

\* the call of actuallyInitializeML startGame is waiting for
racing(i) == loadingOverlay /\ i = Len(runs)

\* Time passes while the race is open, up to the timeout
Tick ==
    /\ loadingOverlay
    /\ elapsed < timeoutDuration(isMobile)
    /\ elapsed' = Min2(elapsed + ClockStep, timeoutDuration(isMobile))
    /\ UNCHANGED <<screen, loadingOverlay, puzzleShown, answerInput,
                   puzzlesShown, modelTrained, initFailures, initOutcome,
                   adaptiveModel, runs>>
    /\ InitFrame

\* actuallyInitializeML, call i, resumes after tf.setBackend and
\* tf.ready: it assigns a new model to the global adaptiveModel and starts
\* to fit it
ModelCreated(i) ==
    /\ runs[i] = "backend"
    /\ runs' = [runs EXCEPT ![i] = "fitting"]
    /\ adaptiveModel' = i
    /\ BackgroundFrame
    /\ InitFrame

\* actuallyInitializeML, call i, returns.  When startGame is waiting for
\* it the race is won: modelTrained = true and the game begins.  After a
\* timeout nothing awaits it any more.
TrainingFinishes(i) ==
    /\ runs[i] = "fitting"
    /\ runs' = [runs EXCEPT ![i] = "finished"]
    /\ IF racing(i)
       THEN /\ modelTrained' = TRUE
            /\ initOutcome' = "trained"
            /\ enterGame(puzzlesShown)
            /\ UNCHANGED initFailures
       ELSE BackgroundFrame
    /\ UNCHANGED adaptiveModel
    /\ InitFrame

\* actuallyInitializeML, call i, throws
TrainingFails(i) ==
    /\ runs[i] \in {"backend", "fitting"}
    /\ runs' = [runs EXCEPT ![i] = "failed"]
    /\ IF racing(i)
       THEN /\ initFails("failed")
            /\ enterGame(puzzlesShown)
       ELSE BackgroundFrame
    /\ UNCHANGED adaptiveModel
    /\ InitFrame

\* the timeout promise of an initialization that never settles
InitTimeout_neverDue ==
    /\ loadingOverlay
    /\ elapsed = timeoutDuration(isMobile)
    /\ UNCHANGED vars

\* The timeout promise rejects first: the race is lost, and
\* actuallyInitializeML goes on with nothing awaiting it
InitTimeout ==
    /\ loadingOverlay
    /\ elapsed = timeoutDuration(isMobile)
    /\ initFails("timeout")
    /\ enterGame(puzzlesShown)
    /\ UNCHANGED <<adaptiveModel, runs>>
    /\ InitFrame

\* submitAnswer past its test of the answer box: the record is pushed,
\* the feedback replaces the puzzle and the advance is scheduled
recordAnswer ==
    /\ \E a \in GameAttempts : performance' = Append(performance, a)
    /\ lastPerfDifficulty' = difficulty
    /\ answerInput' = TRUE
    /\ puzzleShown' = FALSE
    /\ pendingAdvance' = pendingAdvance + 1
    /\ prediction' = NoPrediction
    /\ nextDiff' = 0
    /\ ruleNextDiff' = 0
    /\ rejected' = FALSE
    /\ UNCHANGED <<pc, generatorVars, ratingVars>>
    /\ UNCHANGED <<difficulty, modelTrained, scriptNextDiff>>
    /\ UNCHANGED <<screen, loadingOverlay, puzzleCount, puzzlesShown,
                   adaptCalls, summaries, isSignedIn, isMobile, tfLoaded,
                   elapsed, initCalls, initFailures, initOutcome,
                   adaptiveModel, runs>>

\* submitAnswer for the puzzle on display, an answer typed in the box
submitAnswer ==
    /\ screen = "game"
    /\ puzzleShown
    /\ recordAnswer

\* submitAnswer called again while the feedback is shown: the box still
\* holds the answer, which only showNewPuzzle clears
submitAnswerAgain ==
    /\ screen = "game"
    /\ ~puzzleShown
    /\ answerInput
    /\ pendingAdvance < MaxPending
    /\ recordAnswer

\* The document saveUserData writes from userData
documentOf(data) ==
    [exists |-> TRUE, rating |-> data.rating,
     gamesPlayed |-> data.gamesPlayed,
     totalAccuracy |-> data.totalAccuracy, bestRating |-> data.bestRating]

\* saveUserData: the document afterwards. Nothing is written for a guest,
\* and a write that fails is caught and leaves the document as it was
saveUserData(data, doc, signedIn, written) ==
    IF signedIn /\ written THEN documentOf(data) ELSE doc

\* saveSessionData: how many session documents there are afterwards
saveSessionData(docs, signedIn, written) ==
    IF signedIn /\ written THEN docs + 1 ELSE docs

\* userData.totalAccuracy = (totalAccuracy * (gamesPlayed - 1) + accuracy)
\*                          / gamesPlayed, after gamesPlayed++: the new
\* mean times the new gamesPlayed
totalAccuracyAfter(data, acc) ==
    (IF data.gamesPlayed = 0 THEN 0 ELSE data.totalAccuracy) + acc

\* showSummary with the gate on gameState.isSignedIn left out
sessionRecorded_guestRated(signedIn, data, acc, score) ==
    [ratingChange |-> ratingChangeOf(data.rating, score, data.gamesPlayed),
     userData |-> [updatePlayerRating(data, score)
                      EXCEPT !.gamesPlayed = data.gamesPlayed + 1,
                             !.totalAccuracy = totalAccuracyAfter(data, acc)]]

\* The account part of showSummary: ratingChange and userData afterwards
sessionRecorded(signedIn, data, acc, score) ==
    IF signedIn
    THEN [ratingChange |->
              ratingChangeOf(data.rating, score, data.gamesPlayed),
          userData |-> [updatePlayerRating(data, score)
                           EXCEPT !.gamesPlayed = data.gamesPlayed + 1,
                                  !.totalAccuracy =
                                      totalAccuracyAfter(data, acc)]]
    ELSE [ratingChange |-> 0, userData |-> data]

\* showSummary for a session of accuracy acc, mean time time and final
\* level diff
showSummaryOf(acc, time, diff) ==
    /\ screen' = "summary"
    /\ summaries' = summaries + 1
    /\ accuracy' = acc
    /\ avgTime' = time
    /\ finalDifficulty' = diff
    /\ sessionScore' = calculateSessionRating(acc, time, diff)
    /\ userDataBefore' = userData
    /\ ratingChange' =
           sessionRecorded(isSignedIn, userData, acc,
                           sessionScore').ratingChange
    /\ userData' =
           sessionRecorded(isSignedIn, userData, acc, sessionScore').userData
    /\ IF isSignedIn
       THEN /\ \E written \in BOOLEAN :
                   userDoc' =
                       saveUserData(userData', userDoc, isSignedIn, written)
            /\ \E written \in BOOLEAN :
                   sessionDocs' =
                       saveSessionData(sessionDocs, isSignedIn, written)
       ELSE UNCHANGED <<userDoc, sessionDocs>>
    /\ sessions' = sessions + 1
    /\ UNCHANGED loadPending

\* showSummary
showSummary ==
    showSummaryOf(summaryAccuracy(performance), summaryAvgTime(performance),
                  difficulty)

\* The callback submitAnswer schedules, 2000 ms later: the puzzle is
\* counted, and either the summary is shown or the level is adapted and
\* the next puzzle displayed
Advance ==
    /\ pendingAdvance > 0
    /\ pendingAdvance' = pendingAdvance - 1
    /\ puzzleCount' = puzzleCount + 1
    /\ IF puzzleCount + 1 >= MAX_PUZZLES
       THEN /\ showSummary
            /\ UNCHANGED <<difficulty, prediction, nextDiff, ruleNextDiff,
                           rejected, puzzleShown, answerInput, puzzlesShown,
                           adaptCalls>>
       ELSE /\ \E p \in (IF modelTrained /\ Len(performance) >= MinHistory
                           THEN GamePredictions ELSE {NoPrediction}) :
                   /\ prediction' = p
                   /\ nextDiff' =
                          calculateNextDifficulty(difficulty, performance, p)
                   /\ rejected' =
                          calculateNextDifficultyRejects(performance, p)
            /\ ruleNextDiff' =
                   calculateNextDifficultyRuleBased(difficulty, performance)
            /\ adaptCalls' = adaptCalls + 1
            /\ difficulty' = nextDiff'
            /\ showNewPuzzle(puzzlesShown)
            /\ UNCHANGED <<screen, summaries, ratingVars>>
    /\ UNCHANGED <<pc, generatorVars, performance, modelTrained,
                   scriptNextDiff>>
    /\ UNCHANGED <<loadingOverlay, lastPerfDifficulty, isSignedIn, isMobile,
                   tfLoaded, elapsed, initCalls, initFailures, initOutcome,
                   adaptiveModel, runs>>

\* restartGame
restartGame ==
    /\ screen = "summary"
    /\ screen' = "welcome"
    /\ difficulty' = 0
    /\ accuracy' = 0
    /\ avgTime' = 0
    /\ finalDifficulty' = 0
    /\ sessionScore' = 0
    /\ ratingChange' = 0
    /\ userDataBefore' = userData
    /\ UNCHANGED <<pc, generatorVars, userData, sessions, userDoc,
                   sessionDocs, loadPending>>
    /\ UNCHANGED <<performance, modelTrained, prediction, nextDiff,
                   ruleNextDiff, scriptNextDiff, rejected>>
    /\ UNCHANGED <<loadingOverlay, puzzleShown, answerInput, pendingAdvance,
                   puzzleCount, puzzlesShown, adaptCalls, summaries,
                   lastPerfDifficulty, isSignedIn, isMobile, tfLoaded,
                   elapsed, initCalls, initFailures, initOutcome,
                   adaptiveModel, runs>>

\* The page as loaded, on a phone or a desktop, with or without tf
InitGame ==
    /\ pc = "ready"
    /\ InitGeneratorIdle
    /\ InitEngineIdle
    /\ RatingIdle
    /\ screen = "welcome"
    /\ loadingOverlay = FALSE
    /\ puzzleShown = FALSE
    /\ answerInput = FALSE
    /\ pendingAdvance = 0
    /\ puzzleCount = 0
    /\ puzzlesShown = 0
    /\ adaptCalls = 0
    /\ summaries = 0
    /\ lastPerfDifficulty = 0
    /\ isSignedIn = FALSE
    /\ isMobile \in BOOLEAN
    /\ tfLoaded \in BOOLEAN
    /\ elapsed = 0
    /\ initCalls = 0
    /\ initFailures = 0
    /\ initOutcome = "none"
    /\ adaptiveModel = 0
    /\ runs = <<>>

NextGame ==
    \/ \E l \in Levels : selectDifficulty(l)
    \/ startGame
    \/ Tick
    \/ \E i \in 1..Len(runs) : racing(i) /\ ModelCreated(i)
    \/ \E i \in 1..Len(runs) : racing(i) /\ TrainingFinishes(i)
    \/ \E i \in 1..Len(runs) : racing(i) /\ TrainingFails(i)
    \/ InitTimeout
    \/ submitAnswer
    \/ Advance
    \/ restartGame

SpecGame == InitGame /\ [][NextGame]_vars

\* Time passes and a timer that is due fires
SpecGameFair ==
    /\ InitGame
    /\ [][NextGame]_vars
    /\ WF_vars(Tick)
    /\ WF_vars(InitTimeout)

\* The game with the initializations abandoned at a timeout going on in
\* the background
NextGameOverlap ==
    \/ NextGame
    \/ \E i \in 1..Len(runs) : ~racing(i) /\ ModelCreated(i)
    \/ \E i \in 1..Len(runs) : ~racing(i) /\ TrainingFinishes(i)
    \/ \E i \in 1..Len(runs) : ~racing(i) /\ TrainingFails(i)

SpecGameOverlap == InitGame /\ [][NextGameOverlap]_vars

\* The game with submitAnswer free to be called during the feedback
NextGameResubmit ==
    \/ NextGame
    \/ submitAnswerAgain

SpecGameResubmit == InitGame /\ [][NextGameResubmit]_vars

---------------------------------------------------------------------------
(* The account: auth.js, and the account part of showSummary               *)
(*                                                                         *)
(* The player signs in and out, plays sessions to their summary and        *)
(* reloads the page. Of a session only the summary is kept: its accuracy,  *)
(* mean time and final level are drawn, as the games of NextGame produce   *)
(* them. The documents of the player outlive the page.                     *)

\* The sessions the summaries are drawn from
SummaryAccuracies == {0, 1000}
SummaryTimes == {15000}

\* value || fallback, on numbers
orDefault(value, fallback) == IF value = 0 THEN fallback ELSE value

\* loadUserData with bestRating set to 1000 whatever the document holds
loadUserData_bestDefault(doc, outcome) ==
    IF outcome = "failed" \/ ~doc.exists
    THEN InitialUserData
    ELSE [rating |-> orDefault(doc.rating, 1000),
          gamesPlayed |-> orDefault(doc.gamesPlayed, 0),
          totalAccuracy |-> orDefault(doc.totalAccuracy, 0),
          bestRating |-> 1000]

\* loadUserData: userData afterwards; the read of the document fails, or
\* finds the document, or finds none
loadUserData(doc, outcome) ==
    IF outcome = "failed" \/ ~doc.exists
    THEN InitialUserData
    ELSE [rating |-> orDefault(doc.rating, 1000),
          gamesPlayed |-> orDefault(doc.gamesPlayed, 0),
          totalAccuracy |-> orDefault(doc.totalAccuracy, 0),
          bestRating |-> orDefault(doc.bestRating, 1000)]

\* signInWithGoogle up to await loadUserData(): the popup gave a user
signInWithGoogle ==
    /\ ~isSignedIn
    /\ isSignedIn' = TRUE
    /\ loadPending' = TRUE
    /\ UNCHANGED <<pc, generatorVars, engineVars>>
    /\ UNCHANGED <<accuracy, avgTime, finalDifficulty, sessionScore, userData,
                   userDataBefore, ratingChange, sessions, userDoc,
                   sessionDocs>>
    /\ UNCHANGED <<screen, loadingOverlay, puzzleShown, pendingAdvance,
                   puzzleCount, isMobile, tfLoaded, elapsed, initCalls,
                   initFailures, initOutcome, adaptiveModel, runs,
                   answerInput, puzzlesShown, adaptCalls, summaries,
                   lastPerfDifficulty>>

\* loadUserData settles: userData is replaced, and a new player's
\* document is created by saveUserData
UserDataLoaded ==
    /\ loadPending
    /\ loadPending' = FALSE
    /\ \E outcome \in {"read", "failed"} :
           /\ userData' = loadUserData(userDoc, outcome)
           /\ IF outcome = "read" /\ ~userDoc.exists
              THEN \E written \in BOOLEAN :
                       userDoc' = saveUserData(userData', userDoc,
                                               isSignedIn, written)
              ELSE UNCHANGED userDoc
    /\ UNCHANGED <<pc, generatorVars, engineVars, gameVars>>
    /\ UNCHANGED <<accuracy, avgTime, finalDifficulty, sessionScore,
                   userDataBefore, ratingChange, sessions, sessionDocs>>

\* signOut: userData keeps the values of the player who leaves
signOut ==
    /\ isSignedIn
    /\ isSignedIn' = FALSE
    /\ UNCHANGED <<pc, generatorVars, engineVars, ratingVars>>
    /\ UNCHANGED <<screen, loadingOverlay, puzzleShown, pendingAdvance,
                   puzzleCount, isMobile, tfLoaded, elapsed, initCalls,
                   initFailures, initOutcome, adaptiveModel, runs,
                   answerInput, puzzlesShown, adaptCalls, summaries,
                   lastPerfDifficulty>>

\* A game played to its end: the callback of its last answer calls
\* showSummary
SessionEnds ==
    /\ screen = "welcome"
    /\ sessions < MaxSessions
    /\ \E acc \in SummaryAccuracies, time \in SummaryTimes, diff \in Levels :
           showSummaryOf(acc, time, diff)
    /\ UNCHANGED <<pc, generatorVars, engineVars>>
    /\ UNCHANGED <<loadingOverlay, puzzleShown, pendingAdvance, puzzleCount,
                   isSignedIn, isMobile, tfLoaded, elapsed, initCalls,
                   initFailures, initOutcome, adaptiveModel, runs,
                   answerInput, puzzlesShown, adaptCalls, lastPerfDifficulty>>

\* The page is loaded again: the scripts start from their initial values,
\* the documents stay
reloadPage ==
    /\ userData' = InitialUserData
    /\ userDataBefore' = InitialUserData
    /\ isSignedIn' = FALSE
    /\ loadPending' = FALSE
    /\ screen' = "welcome"
    /\ accuracy' = 0
    /\ avgTime' = 0
    /\ finalDifficulty' = 0
    /\ sessionScore' = 0
    /\ ratingChange' = 0
    /\ summaries' = 0
    /\ UNCHANGED <<pc, generatorVars, engineVars, sessions, userDoc,
                   sessionDocs>>
    /\ UNCHANGED <<loadingOverlay, puzzleShown, pendingAdvance, puzzleCount,
                   isMobile, tfLoaded, elapsed, initCalls, initFailures,
                   initOutcome, adaptiveModel, runs, answerInput,
                   puzzlesShown, adaptCalls, lastPerfDifficulty>>

InitAccount ==
    /\ pc = "ready"
    /\ InitGeneratorIdle
    /\ InitEngineIdle
    /\ RatingIdle
    /\ GameIdle

NextAccount ==
    \/ signInWithGoogle
    \/ UserDataLoaded
    \/ signOut
    \/ SessionEnds
    \/ restartGame
    \/ reloadPage

SpecAccount == InitAccount /\ [][NextAccount]_vars

---------------------------------------------------------------------------
(* The value of a display under the standard order of operations:          *)
(* parentheses first, then * and /, then + and - from left to right.       *)
(* An evaluation gives the value, the position after the part read,        *)
(* whether every subtraction done had a non-negative result, and whether   *)
(* every division done was exact with a non-zero divisor.                  *)

RECURSIVE EvalExpr(_, _), EvalFactor(_, _), EvalTermTail(_, _),
          EvalExprTail(_, _)

EvalFactor(toks, i) ==
    IF toks[i].kind = "("
    THEN LET e == EvalExpr(toks, i + 1)
         IN  [e EXCEPT !.pos = e.pos + 1]
    ELSE [val |-> toks[i].val, pos |-> i + 1, subOK |-> TRUE, divOK |-> TRUE]

EvalTermTail(toks, acc) ==
    IF acc.pos <= Len(toks) /\ toks[acc.pos].kind \in {"*", "/"}
    THEN LET f == EvalFactor(toks, acc.pos + 1)
             mul == toks[acc.pos].kind = "*"
         IN  EvalTermTail(toks,
                 [val |-> IF mul THEN acc.val * f.val
                          ELSE IF f.val = 0 THEN 0
                          ELSE acc.val \div f.val,
                  pos |-> f.pos,
                  subOK |-> acc.subOK /\ f.subOK,
                  divOK |-> /\ acc.divOK
                            /\ f.divOK
                            /\ (mul \/ (f.val # 0 /\ acc.val % f.val = 0))])
    ELSE acc

EvalTerm(toks, i) == EvalTermTail(toks, EvalFactor(toks, i))

EvalExprTail(toks, acc) ==
    IF acc.pos <= Len(toks) /\ toks[acc.pos].kind \in {"+", "-"}
    THEN LET t == EvalTerm(toks, acc.pos + 1)
             add == toks[acc.pos].kind = "+"
         IN  EvalExprTail(toks,
                 [val |-> IF add THEN acc.val + t.val ELSE acc.val - t.val,
                  pos |-> t.pos,
                  subOK |-> /\ acc.subOK
                            /\ t.subOK
                            /\ (add \/ acc.val - t.val >= 0),
                  divOK |-> acc.divOK /\ t.divOK])
    ELSE acc

EvalExpr(toks, i) == EvalExprTail(toks, EvalTerm(toks, i))

Evaluate(display) == EvalExpr(display, 1)

HasToken(display, s) == \E i \in 1..Len(display) : display[i].kind = s

---------------------------------------------------------------------------
(* Claims about the puzzle generator, checked under SpecGenerator          *)

\* C1: for every level and every outcome of the random draws, the answer of
\* the puzzle returned by generatePuzzle is the value of its display under
\* the standard order of operations, and the display is read to its end.
C1_AnswerIsValueOfDisplay ==
    pc = "done" =>
        LET e == Evaluate(puzzle.display)
        IN  /\ e.pos = Len(puzzle.display) + 1
            /\ e.val = puzzle.answer

\* C1 witness: a 4-operand mixed puzzle whose first operand was inflated,
\* shown with the inflated operand.
C1_Witness ==
    /\ pc = "done"
    /\ branch = "mixed4_inflated"
    /\ puzzle.display[1].val = puzzle.num1
    /\ Evaluate(puzzle.display).val = puzzle.answer

\* C2: every puzzle produced by generatePuzzle has an answer > 0.
C2_AnswerPositive ==
    pc = "done" => puzzle.answer > 0

\* C3: every subtraction performed while evaluating the display of a
\* generated puzzle has a non-negative result.
C3_SubtractionsNonNegative ==
    pc = "done" => Evaluate(puzzle.display).subOK

\* C3 witness: a parenthesised inner subtraction, larger operand first.
C3_Witness ==
    /\ pc = "done"
    /\ branch = "parentheses3"
    /\ puzzle.display[3].kind = "-"
    /\ puzzle.num1 > puzzle.num2

---------------------------------------------------------------------------
(* Claims about the adaptive engine, checked under SpecEngine              *)

\* the window of a history: its last min(3, length) records
Window(h) == SubSeq(h, Len(h) - Min2(3, Len(h)) + 1, Len(h))

NumCorrect(w) == Cardinality({i \in DOMAIN w : w[i].correct})

RECURSIVE TotalTime(_)
TotalTime(w) == IF Len(w) = 0 THEN 0 ELSE Head(w).time + TotalTime(Tail(w))

\* accuracy >= pct / 100, accuracy < pct / 100
AccuracyAtLeast(w, pct) == 100 * NumCorrect(w) >= pct * Len(w)
AccuracyBelow(w, pct) == 100 * NumCorrect(w) < pct * Len(w)

\* mean response time < ms, >= ms
MeanTimeBelow(w, ms) == TotalTime(w) < ms * Len(w)
MeanTimeAtLeast(w, ms) == TotalTime(w) >= ms * Len(w)

\* the rule-based decisions of a finished call are all equal to v
RuleBasedDecisionIs(v) ==
    /\ ruleNextDiff = v
    /\ scriptNextDiff = v
    /\ (~modelTrained \/ prediction.threw) => nextDiff = v

\* C5: with fewer than 2 recorded attempts calculateNextDifficulty returns
\* the current level, whether or not the predictor is trained.
C5_ShortHistoryKeepsLevel ==
    (pc = "done" /\ Len(performance) < 2) =>
        /\ nextDiff = difficulty
        /\ ruleNextDiff = difficulty
        /\ scriptNextDiff = difficulty

\* C5 witness: one record, a trained predictor whose top class is another
\* level, and the level is kept.
C5_Witness ==
    /\ pc = "done"
    /\ Len(performance) = 1
    /\ modelTrained
    /\ ~prediction.threw
    /\ indexOfMax(prediction.data) # difficulty
    /\ nextDiff = difficulty

\* C6: for a history of at least 2 records whose window has accuracy >= 0.80
\* and mean response time < 8000 ms, the rule-based decision is
\* min(d + 1, 2).
C6_IncreaseRule ==
    (/\ pc = "done"
     /\ Len(performance) >= 2
     /\ AccuracyAtLeast(Window(performance), 80)
     /\ MeanTimeBelow(Window(performance), 8000)) =>
        RuleBasedDecisionIs(Min2(difficulty + 1, 2))

\* C6 witness: at Hard, four records of which the first, outside the
\* window, is wrong; the level stays Hard.
C6_Witness ==
    /\ pc = "done"
    /\ Len(performance) = 4
    /\ ~performance[1].correct
    /\ AccuracyAtLeast(Window(performance), 80)
    /\ MeanTimeBelow(Window(performance), 8000)
    /\ difficulty = 2
    /\ ruleNextDiff = 2

C8_MaintainRule ==
    (/\ pc = "done"
     /\ Len(performance) >= 2
     /\ \/ /\ AccuracyAtLeast(Window(performance), 67)
           /\ AccuracyBelow(Window(performance), 80)
        \/ /\ AccuracyAtLeast(Window(performance), 80)
           /\ MeanTimeAtLeast(Window(performance), 8000)) =>
        RuleBasedDecisionIs(difficulty)

\* C8 witness: Medium, an all-correct window of three whose mean response
\* time is exactly 8000 ms; the level is kept.
C8_Witness ==
    /\ pc = "done"
    /\ difficulty = 1
    /\ Len(performance) = 3
    /\ NumCorrect(performance) = 3
    /\ TotalTime(performance) = 3 * 8000
    /\ ruleNextDiff = 1
    /\ scriptNextDiff = 1

\* C9: calculateNextDifficulty never returns a level more than one step
\* from the current level, on the rule-based path and on the ML path.
C9_AtMostOneStep ==
    pc = "done" =>
        /\ Abs(nextDiff - difficulty) <= 1
        /\ Abs(ruleNextDiff - difficulty) <= 1
        /\ Abs(scriptNextDiff - difficulty) <= 1

\* C10: when exactly 2 of the last 3 attempts are correct the decision
\* keeps the current level; a decrease needs fewer than 2 of the last 3
\* correct.
C10_TwoOfThreeMaintains ==
    (/\ pc = "done"
     /\ Len(performance) >= 3
     /\ NumCorrect(Window(performance)) = 2) =>
        RuleBasedDecisionIs(difficulty)

\* The histories that differ from h in the response times only.
TimeVariants(h) ==
    {[i \in 1..Len(h) |-> [correct |-> h[i].correct, time |-> ts[i]]] :
        ts \in [1..Len(h) -> Times]}

\* C11: response time never causes a decrease.  For the level and the
\* history of a finished call, every history with the same correctness
\* flags and other response times gets a decrease from the rule exactly
\* when this one does, in both builds; and an all-correct window whose mean
\* response time is >= 8000 ms keeps the current level.  The rule does not
\* read the predictor, so the comparison is made on the calls with no
\* predictor, which cover every level and history.
C11_TimeNeverDecreases ==
    pc = "done" =>
        /\ ~modelTrained =>
               \A h \in TimeVariants(performance) :
                   /\ (calculateNextDifficultyRuleBased(difficulty, h)
                           < difficulty) <=> (ruleNextDiff < difficulty)
                   /\ (scriptCalculateNextDifficulty(difficulty, h)
                           < difficulty) <=> (scriptNextDiff < difficulty)
        /\ (/\ Len(performance) >= 1
            /\ NumCorrect(Window(performance)) = Len(Window(performance))
            /\ MeanTimeAtLeast(Window(performance), 8000)) =>
               RuleBasedDecisionIs(difficulty)

\* C11 witness: Hard, three correct answers of 12000 ms each, no predictor;
\* the level stays Hard.
C11_Witness ==
    /\ pc = "done"
    /\ ~modelTrained
    /\ difficulty = 2
    /\ Len(performance) = 3
    /\ \A i \in 1..3 : /\ performance[i].correct
                       /\ performance[i].time = 3 * TimeStep
    /\ nextDiff = 2
    /\ ruleNextDiff = 2
    /\ scriptNextDiff = 2

\* the largest output of the predictor is <= pct / 100
TopConfidenceAtMost(data, pct) ==
    \A i \in 1..3 : 100 * data[i] <= pct * ProbDenominator

\* C13: with a trained predictor whose largest softmax output is at or
\* below 0.7, calculateNextDifficulty returns the rule-based decision for
\* the same level and history.
C13_LowConfidenceFallsBack ==
    (/\ pc = "done"
     /\ modelTrained
     /\ ~prediction.threw
     /\ TopConfidenceAtMost(prediction.data, 70)) =>
        nextDiff = ruleNextDiff

\* C14: with no trained predictor, or when the prediction throws,
\* calculateNextDifficulty returns calculateNextDifficultyRuleBased of the
\* same level and history and its promise is not rejected.
C14_PredictorFailureFallsBack ==
    (pc = "done" /\ (~modelTrained \/ prediction.threw)) =>
        /\ nextDiff = ruleNextDiff
        /\ ~rejected

\* C14 witness: a trained predictor throws on a history of three records
\* and the call returns the rule's decision, a lower level.
C14_Witness ==
    /\ pc = "done"
    /\ modelTrained
    /\ prediction.threw
    /\ Len(performance) = 3
    /\ difficulty = 2
    /\ nextDiff = 1
    /\ ruleNextDiff = 1
    /\ ~rejected

\* C15: the class the predictor gives is applied as a transition from the
\* current level: 0 one level down, 1 the same level, 2 one level up,
\* clamped to 0..2.
C15_ClassIsRelativeTransition ==
    (/\ pc = "done"
     /\ modelTrained
     /\ ~prediction.threw
     /\ Len(performance) >= 2) =>
        nextDiff =
            Max2(0, Min2(2, difficulty + indexOfMax(prediction.data) - 1))

---------------------------------------------------------------------------
(* Claims about the rating system, checked under SpecRating and SpecScore  *)

\* C18: after any sequence of updatePlayerRating calls, from any prior
\* rating, session score and count of games, userData.rating is >= 100.
C18_RatingFloor ==
    sessions > 0 => userData.rating >= 100

\* C18 witness: a stored rating below 100 and a session score of 0; the
\* change is 0 and the rating becomes 100.  (From a rating of 100 or more
\* no change leads below 100: a rating falls only when K * expected
\* >= 1/2, that is from about 740 upwards, and by at most 40.)
C18_Witness ==
    /\ sessions = 1
    /\ userDataBefore.rating < 100
    /\ sessionScore = 0
    /\ ratingChange = 0
    /\ userData.rating = 100

---------------------------------------------------------------------------
(* Claims about the game flow, checked under SpecGame and SpecGameFair     *)

C16_NoInitializationAfterAbandon ==
    [][initFailures > 0 =>
          /\ initCalls' = initCalls
          /\ ~modelTrained'
          /\ prediction' = NoPrediction]_vars

\* C17: every call of initializeMLModel settles, no later than its timeout
\* (8000 ms on a phone, 15000 ms on a desktop); modelTrained is true only
\* when the training finished first and false after a failure or the
\* timeout; and startGame then shows the first puzzle of the game.
C17_InitializationSettles ==
    /\ [](loadingOverlay =>
             /\ elapsed <= (IF isMobile THEN 8000 ELSE 15000)
             /\ initOutcome = "racing")
    /\ [](modelTrained => initOutcome = "trained")
    /\ [](initOutcome \in {"failed", "timeout", "unavailable"}
             => ~modelTrained)
    /\ (loadingOverlay ~>
            (/\ ~loadingOverlay
             /\ initOutcome \in {"trained", "failed", "timeout"}
             /\ screen = "game"
             /\ puzzleShown
             /\ puzzleCount = 0
             /\ performance = <<>>))

\* C17 witness: on a desktop the timeout has ended the first
\* initialization; modelTrained is false and the first puzzle is shown.
C17_Witness ==
    /\ ~isMobile
    /\ initCalls = 1
    /\ initOutcome = "timeout"
    /\ ~modelTrained
    /\ ~loadingOverlay
    /\ screen = "game"
    /\ puzzleShown
    /\ puzzleCount = 0

---------------------------------------------------------------------------
(* Claims about the forms of the puzzles, checked under SpecGenerator      *)

\* the number of operands a display shows
NumOperands(display) ==
    Cardinality({i \in 1..Len(display) : display[i].kind = "num"})

\* the display has the form a + b * c - d
IsMixedPattern(display) ==
    /\ Len(display) = 7
    /\ [i \in 1..7 |-> display[i].kind]
           = <<"num", "+", "num", "*", "num", "-", "num">>

\* C22: at Easy every puzzle generatePuzzle returns is a simple puzzle of
\* two operands joined by + or -; at Medium no puzzle comes from the
\* mixed-operations generator or has the form a + b * c - d, none has four
\* operands and none has a division.
C22_LevelFormsRespected ==
    pc = "done" =>
        /\ level = 0 =>
               /\ branch = "simple"
               /\ puzzle.operation \in {"+", "-"}
               /\ Len(puzzle.display) = 3
               /\ NumOperands(puzzle.display) = 2
               /\ puzzle.display[2].kind = puzzle.operation
        /\ level = 1 =>
               /\ branch \notin {"mixed3", "mixed4", "mixed4_inflated"}
               /\ ~IsMixedPattern(puzzle.display)
               /\ NumOperands(puzzle.display) <= 3
               /\ ~HasToken(puzzle.display, "/")
               /\ puzzle.operation # "/"

\* C22 witness: a Medium puzzle from the complex generator, three operands
\* with parentheses.
C22_Witness ==
    /\ pc = "done"
    /\ level = 1
    /\ branch = "parentheses3"
    /\ NumOperands(puzzle.display) = 3
    /\ HasToken(puzzle.display, "(")

\* C23: every puzzle generated at Hard has 3 or 4 operands.
C23_HardHasThreeOrFourOperands ==
    (pc = "done" /\ level = 2) => NumOperands(puzzle.display) \in {3, 4}

\* C24: the 4-operand form a + b * c - d of generateMixedOperations always
\* has an answer > 0, and when the first value computed is negative the
\* answer is recomputed from the a that was increased by the deficit and a
\* margin of 5 to 14.
C24_MixedAnswerPositive ==
    (pc = "done" /\ branch \in {"mixed4", "mixed4_inflated"}) =>
        /\ puzzle.answer > 0
        /\ puzzle.answer = Evaluate(puzzle.display).val
        /\ puzzle.display[1].val = puzzle.num1

\* C25: at Hard, some outcome of the draws of generateMixedOperations that
\* takes the branch answer < 0 returns an answer above the maximum of the
\* level's range, 50.
C25_InflatedAnswerCanExceedRange ==
    (pc = "ready" /\ level = 2) =>
        LET min == DIFFICULTY_LEVELS[2].range[1]
            max == DIFFICULTY_LEVELS[2].range[2]
        IN  \E r \in MixedDraws(min, max, 4) :
                /\ mixedFirstAnswer(min, max, r) < 0
                /\ generateMixedOperations(min, max, 4, r).answer > max

\* C25, as the code has it: on the branch answer < 0 the answer returned is
\* the margin drawn plus 5, between 5 and 14, whatever the deficit, so it
\* never exceeds the maximum of the level's range.
C25_InflatedAnswerIsMargin ==
    (pc = "done" /\ branch = "mixed4_inflated") =>
        /\ puzzle.answer \in 5..14
        /\ puzzle.answer <= DIFFICULTY_LEVELS[level].range[2]

\* C25 witness: the branch taken with the largest margin, answer 14.
C25_Witness ==
    /\ pc = "done"
    /\ level = 2
    /\ branch = "mixed4_inflated"
    /\ puzzle.answer = 14

---------------------------------------------------------------------------
(* Further claims about the rule-based decision, checked under SpecEngine  *)

\* the window of a history holds an incorrect record
WindowHasIncorrect(h) == \E i \in DOMAIN Window(h) : ~Window(h)[i].correct

---------------------------------------------------------------------------
(* Claims about interleavings in the game, checked under SpecGameResubmit  *)
(* and SpecGameOverlap                                                     *)

\* C21: whatever the order of the calls of submitAnswer and of the advance
\* callbacks, every puzzle displayed has exactly one record once it is
\* answered and none before, and the summary is shown once in a game, when
\* exactly MAX_PUZZLES records exist.
C21_OneRecordPerPuzzle ==
    /\ Len(performance) = puzzlesShown - (IF puzzleShown THEN 1 ELSE 0)
    /\ summaries <= 1
    /\ summaries = 1 => Len(performance) = MAX_PUZZLES

\* C27: whenever modelTrained is true, the global adaptiveModel is the
\* model of a call of actuallyInitializeML whose training has finished.
C27_TrainedModelIsComplete ==
    modelTrained =>
        /\ adaptiveModel \in 1..Len(runs)
        /\ runs[adaptiveModel] = "finished"

\* C28: calculateNextDifficulty is called MAX_PUZZLES - 1 times in a game,
\* never after the last puzzle, so when the summary is shown
\* gameState.difficulty, the level given to calculateSessionRating, is the
\* difficulty of the last record.
C28_NoAdaptationAfterLastPuzzle ==
    /\ adaptCalls <= MAX_PUZZLES - 1
    /\ screen = "summary" =>
           /\ adaptCalls = MAX_PUZZLES - 1
           /\ difficulty = lastPerfDifficulty
           /\ finalDifficulty = lastPerfDifficulty

---------------------------------------------------------------------------
(* Claims about the account, checked under SpecAccount                     *)

===========================================================================
